---- MODULE Spec2Model ----
(***************************************************************************)
(* A model of datapad's Sequence (src/datapad/sequence.py).                *)
(*                                                                         *)
(* A Sequence wraps one Python iterator (its cursor, self._iterable).      *)
(* Iterators are objects on a heap; an operator of Sequence allocates      *)
(* iterator objects (generators, itertools.chain, itertools.tee) that      *)
(* refer to the iterators they wrap, so that aliasing of a cursor by       *)
(* several Sequences is part of the model.  ItNext is Python's next() on   *)
(* such an object.                                                         *)
(***************************************************************************)
EXTENDS Integers, Sequences, FiniteSets, TLC

\* ------------------------------------------------------------------ bounds
MaxLen == 3        \* longest source list
MaxCount == 2      \* largest count argument of take and peek
MaxOps == 3        \* operator calls per behaviour
MaxWinLen == 6     \* longest source list under window and batch
MaxSize == 3       \* largest size and stride argument of window and batch
MaxWinOps == 1     \* window and batch calls per behaviour
MaxRedLen == 3     \* longest source list under reduce
MaxElem == 2       \* the elements under reduce are 1..MaxElem, repeats included
MaxInit == 1       \* the initial values of reduce are 0..MaxInit
MaxRedOps == 2     \* calls per behaviour under reduce
MaxPmapLen == 3    \* longest source list under pmap
MaxWorkers == 2    \* largest workers argument of pmap
MaxPipeLen == 3    \* longest source list of a pipeline
MaxPipeOps == 1    \* calls that build or rebind a Sequence, per pipeline
MaxPipeArg == 2    \* largest count and size argument in a pipeline
MaxGrpLen == 3     \* longest source list under groupby and distinct
MaxGrpElem == 3    \* the elements under groupby and distinct are 1..MaxGrpElem
MaxGrpOps == 1     \* groupby and distinct calls per behaviour
MaxFields == 2     \* most fields of a list or dict passed to a fields function

\* Python's None, as a value (first() on an empty sequence)
None == -1

\* range(1, n + 1)
Range(n) == [i \in 1..n |-> i]

\* The sources: Sequence(range(1, n + 1)). The operators of this section never
\* inspect an element, so distinct elements are the general case.
Inputs == { Range(n) : n \in 0..MaxLen }

\* ------------------------------------------------------------------ state
VARIABLES
    heap,     \* the iterator objects, by identity 1..Len(heap)
    seqs,     \* the Sequence objects: seqs[s] is s._iterable, an identity
    last,     \* the last operator call: its arguments, its result, the heap before it
    nops,     \* operator calls made so far
    pool      \* the thread pool of pmap, its queues and the imap iterator

vars == <<heap, seqs, last, nops, pool>>

\* ---------------------------------------------------------------- objects
\* One record shape for every iterator object; a kind uses the fields it needs.
\*   kind   "list" | "take" | "chain" | "teedata" | "tee" | "window" | "map" |
\*          "flatmap" | "filter" | "drop" | "enumerate" | "groupby" | "pmap" |
\*          "lazygroupby" | "group"
\*   up     the wrapped iterator (its identity), 0 when none
\*   items  list: the list; chain: the identities still to be chained;
\*          teedata: the elements buffered; window: the deque; flatmap: what is
\*          left of fn(item); groupby: the element read ahead, if any;
\*          lazygroupby: currvalue of itertools.groupby, if any
\*   pos    list, tee: the read position; take: elements yielded; window: windows;
\*          drop, enumerate: the index i of enumerate
\*   n      take, drop: count; window: size; filter: 1 when fn is wrapped in
\*          lambda v: not fn(v)
\*   fn     map, flatmap, filter, groupby: the name of the function passed
\*   getter groupby: the name of the getter passed
\*   stride window: stride
\*   st     a generator's position: "start", "yielded", "done"
\*   out    how many elements the object has produced (a counter of the pulls
\*          made on it, for the claims that count upstream pulls)
\*   currkey, tgtkey, currgrouper
\*          lazygroupby: the fields of itertools.groupby (None for NULL, the
\*          identity of the current group, 0 when none); group: its tgtkey
Obj(kind, up, items, n, stride) ==
    [kind |-> kind, up |-> up, items |-> items, pos |-> 0, n |-> n,
     stride |-> stride, st |-> "start", out |-> 0, fn |-> "", getter |-> "",
     currkey |-> None, tgtkey |-> None, currgrouper |-> 0]

\* a generator or iterator that closes over a function: _f(self._iterable)
ObjFn(kind, up, fn, n) == [Obj(kind, up, <<>>, n, 0) EXCEPT !.fn = fn]

\* iter(list): a list_iterator at position 0
ListIter(xs) == Obj("list", 0, xs, 0, 0)

\* results of next(): an element, StopIteration (exc = "StopIteration"), or another exception
Yield(h, v) == [h |-> h, ok |-> TRUE, v |-> v, exc |-> ""]
Stop(h) == [h |-> h, ok |-> FALSE, v |-> None, exc |-> "StopIteration"]
Raise(h, e) == [h |-> h, ok |-> FALSE, v |-> None, exc |-> e]

\* Bind(e, F) is F(e) with e evaluated once: TLC binds x to the value of e
Bind(e, F(_)) == CHOOSE y \in { F(x) : x \in {e} } : TRUE

RECURSIVE ItNext(_, _)

\* next() of a list_iterator
ListNext(h, id) ==
    IF h[id].pos < Len(h[id].items)
    THEN Yield([h EXCEPT ![id].pos = @ + 1], h[id].items[h[id].pos + 1])
    ELSE Stop(h)

\* a take that tests the count before it yields, after pulling the next element
TakeNextEager(h, id) ==
    IF h[id].st = "done" THEN Stop(h)
    ELSE Bind(ItNext(h, h[id].up), LAMBDA r :
            IF r.ok /\ h[id].pos < h[id].n
            THEN Yield([r.h EXCEPT ![id].st = "yielded", ![id].pos = @ + 1], r.v)
            ELSE Stop([r.h EXCEPT ![id].st = "done"]))

\* next() of take's generator _f:
\*     for i, item in enumerate(seq):
\*         yield item
\*         if (i + 1) >= count: break
\* pos is i + 1 once an item was yielded
TakeNext(h, id) ==
    IF h[id].st = "done" THEN Stop(h)
    ELSE IF h[id].st = "yielded" /\ h[id].pos >= h[id].n
    THEN Stop([h EXCEPT ![id].st = "done"])
    ELSE Bind(ItNext(h, h[id].up), LAMBDA r :
            IF r.ok
            THEN Yield([r.h EXCEPT ![id].st = "yielded", ![id].pos = @ + 1], r.v)
            ELSE [r EXCEPT !.h[id].st = "done"])

\* next() of itertools.chain(a, b): items holds the iterators not yet exhausted
RECURSIVE ChainNext(_, _)
ChainNext(h, id) ==
    IF h[id].items = <<>> THEN Stop(h)
    ELSE Bind(ItNext(h, Head(h[id].items)), LAMBDA r :
            IF r.ok \/ r.exc # "StopIteration" THEN r
            ELSE Bind([r.h EXCEPT ![id].items = Tail(@)], LAMBDA h1 : ChainNext(h1, id)))

\* a tee without the buffer: each of the two iterators pulls the wrapped one
TeeNextUnbuffered(h, id) ==
    Bind(ItNext(h, h[h[id].up].up), LAMBDA r :
        IF r.ok THEN Yield([r.h EXCEPT ![id].pos = @ + 1], r.v) ELSE r)

\* next() of one of the two iterators of itertools.tee: they share the buffer
\* (the teedata object h[id].up) of the elements pulled from the wrapped iterator
TeeNext(h, id) ==
    IF h[id].pos < Len(h[h[id].up].items)
    THEN Yield([h EXCEPT ![id].pos = @ + 1], h[h[id].up].items[h[id].pos + 1])
    ELSE Bind(ItNext(h, h[h[id].up].up), LAMBDA r :
            IF r.ok
            THEN Yield([r.h EXCEPT ![h[id].up].items = Append(@, r.v),
                                   ![id].pos = @ + 1], r.v)
            ELSE r)

\* a deque without maxlen: nothing is evicted
DequeAppendUnbounded(q, x, maxlen) == Append(q, x)

\* collections.deque(maxlen=size).append(x)
DequeAppend(q, x, maxlen) ==
    IF maxlen = 0 THEN q
    ELSE IF Len(q) >= maxlen THEN Append(Tail(q), x)
    ELSE Append(q, x)

\* the second loop of _window_iterator:
\*     for element in iterable:
\*         windows += 1
\*         queue.append(element)
\*         if windows % stride == 0: yield list(queue)
\* pos is windows, items is queue
RECURSIVE WindowSlide(_, _)
WindowSlide(h, id) ==
    Bind(ItNext(h, h[id].up), LAMBDA r :
        IF ~r.ok THEN [r EXCEPT !.h[id].st = "done"]
        ELSE Bind([r.h EXCEPT ![id].pos = @ + 1,
                              ![id].items = DequeAppend(@, r.v, h[id].n),
                              ![id].st = "yielded"], LAMBDA h1 :
                IF h1[id].pos % h1[id].stride = 0
                THEN Yield(h1, h1[id].items)
                ELSE WindowSlide(h1, id)))

\* the first loop of _window_iterator:
\*     while True:
\*         try: element = next(iterable)
\*         except StopIteration: break
\*         queue.append(element)
\*         if len(queue) < size: continue
\*         else: yield list(queue); break
RECURSIVE WindowFill(_, _)
WindowFill(h, id) ==
    Bind(ItNext(h, h[id].up), LAMBDA r :
        IF ~r.ok /\ r.exc # "StopIteration" THEN [r EXCEPT !.h[id].st = "done"]
        ELSE IF ~r.ok THEN WindowSlide([r.h EXCEPT ![id].st = "yielded"], id)
        ELSE Bind([r.h EXCEPT ![id].items = DequeAppend(@, r.v, h[id].n)], LAMBDA h1 :
                IF Len(h1[id].items) < h1[id].n
                THEN WindowFill(h1, id)
                ELSE Yield([h1 EXCEPT ![id].st = "yielded"], h1[id].items)))

\* next() of window's generator _window_iterator; deque(maxlen=size) raises
\* ValueError for a negative size when the generator starts
WindowNext(h, id) ==
    IF h[id].st = "done" THEN Stop(h)
    ELSE IF h[id].st = "start"
    THEN IF h[id].n < 0 THEN Raise([h EXCEPT ![id].st = "done"], "ValueError")
         ELSE WindowFill(h, id)
    ELSE WindowSlide(h, id)

\* the function passed to map and pmap in the doctests and tests: lambda v: v * 2
F(x) == 2 * x

\* the functions passed to map: F, and one that raises on the element 2,
\* lambda v: 6 // (v - 2)
MapFns == {"double", "inv"}
Apply(fn, x) ==
    CASE fn = "double" -> [ok |-> TRUE, v |-> F(x), exc |-> ""]
      [] fn = "inv" -> IF x = 2 THEN [ok |-> FALSE, v |-> None, exc |-> "ZeroDivisionError"]
                       ELSE [ok |-> TRUE, v |-> 6 \div (x - 2), exc |-> ""]

\* a map that catches what fn raises and goes on with the next element
RECURSIVE MapNextSkipErrors(_, _)
MapNextSkipErrors(h, id) ==
    IF h[id].st = "done" THEN Stop(h)
    ELSE Bind(ItNext(h, h[id].up), LAMBDA r :
            IF ~r.ok THEN [r EXCEPT !.h[id].st = "done"]
            ELSE Bind(Apply(h[id].fn, r.v), LAMBDA a :
                    IF a.ok THEN Yield([r.h EXCEPT ![id].st = "yielded"], a.v)
                    ELSE MapNextSkipErrors([r.h EXCEPT ![id].st = "yielded"], id)))

\* next() of map's generator _f: for item in seq: yield fn(item).
\* An exception of fn leaves the generator through the frame and finishes it
MapNext(h, id) ==
    IF h[id].st = "done" THEN Stop(h)
    ELSE Bind(ItNext(h, h[id].up), LAMBDA r :
            IF ~r.ok THEN [r EXCEPT !.h[id].st = "done"]
            ELSE Bind(Apply(h[id].fn, r.v), LAMBDA a :
                    IF a.ok THEN Yield([r.h EXCEPT ![id].st = "yielded"], a.v)
                    ELSE Raise([r.h EXCEPT ![id].st = "done"], a.exc)))

\* the functions passed to flatmap: lambda v: [v, v] and lambda v: [v] * (v - 1)
FlatFns == {"dup", "rep"}
FlatFn(fn, x) ==
    CASE fn = "dup" -> <<x, x>>
      [] fn = "rep" -> [k \in 1..(x - 1) |-> x]

\* next() of flatmap's generator _f:
\*     for item in seq:
\*         for element in fn(item): yield element
RECURSIVE FlatmapNext(_, _)
FlatmapNext(h, id) ==
    IF h[id].st = "done" THEN Stop(h)
    ELSE IF h[id].items # <<>>
    THEN Yield([h EXCEPT ![id].items = Tail(@)], Head(h[id].items))
    ELSE Bind(ItNext(h, h[id].up), LAMBDA r :
            IF ~r.ok THEN [r EXCEPT !.h[id].st = "done"]
            ELSE Bind([r.h EXCEPT ![id].items = FlatFn(h[id].fn, r.v),
                                  ![id].st = "yielded"], LAMBDA h1 :
                    FlatmapNext(h1, id)))

\* What a predicate returns, as a Python value: a bool ([t |-> "bool"], v is 1
\* for True and 0 for False) or an int
PyBool(b) == [v |-> IF b THEN 1 ELSE 0, t |-> "bool"]
PyInt(i) == [v |-> i, t |-> "int"]

\* the predicates passed to keep_if and drop_if: lambda v: v > 1, which
\* returns a bool, and lambda v: v % 2, which returns 1 or 0
Preds == {"gt1", "mod2"}
Pred(fn, x) ==
    CASE fn = "gt1" -> PyBool(x > 1)
      [] fn = "mod2" -> PyInt(x % 2)

\* not v
PyNot(v) == PyBool(v.v = 0)

\* the test of a truthy value: if not fn(item)
IsTruthy(v) == v.v # 0

\* v is True
IsTrue(v) == v.t = "bool" /\ v.v = 1

\* fn(item) as keep_if's generator calls it: fn itself, or drop_if's
\* lambda v: not fn(v)
Test(o, x) == IF o.n = 1 THEN PyNot(Pred(o.fn, x)) ELSE Pred(o.fn, x)

\* next() of keep_if's generator _f:
\*     for item in seq:
\*         if fn(item) is not True: continue
\*         yield item
RECURSIVE FilterNext(_, _)
FilterNext(h, id) ==
    IF h[id].st = "done" THEN Stop(h)
    ELSE Bind(ItNext(h, h[id].up), LAMBDA r :
            IF ~r.ok THEN [r EXCEPT !.h[id].st = "done"]
            ELSE IF IsTrue(Test(h[id], r.v))
            THEN Yield([r.h EXCEPT ![id].st = "yielded"], r.v)
            ELSE FilterNext([r.h EXCEPT ![id].st = "yielded"], id))

\* next() of drop's generator _f:
\*     for i, item in enumerate(seq):
\*         if i >= count: yield item
RECURSIVE DropNext(_, _)
DropNext(h, id) ==
    IF h[id].st = "done" THEN Stop(h)
    ELSE Bind(ItNext(h, h[id].up), LAMBDA r :
            IF ~r.ok THEN [r EXCEPT !.h[id].st = "done"]
            ELSE Bind([r.h EXCEPT ![id].pos = @ + 1, ![id].st = "yielded"], LAMBDA h1 :
                    IF h[id].pos >= h[id].n THEN Yield(h1, r.v)
                    ELSE DropNext(h1, id)))

\* next() of enumerate(self._iterable), of zip_with_index
EnumerateNext(h, id) ==
    Bind(ItNext(h, h[id].up), LAMBDA r :
        IF r.ok THEN Yield([r.h EXCEPT ![id].pos = @ + 1], <<h[id].pos, r.v>>)
        ELSE r)

\* the key and getter functions passed to groupby: lambda x: x and
\* lambda x: x % 2 as keys, the default getter (x itself) and lambda x: x * 2
KeyFns == {"ident", "parity"}
Key(fn, x) == IF fn = "parity" THEN x % 2 ELSE x
Getters == {"", "double"}
Getter(g, x) == IF g = "double" THEN F(x) ELSE x

\* a grouping that loses the element it read ahead when the key changes
RECURSIVE GroupRunDropsLookahead(_, _, _, _)
GroupRunDropsLookahead(h, id, k, acc) ==
    Bind(ItNext(h, h[id].up), LAMBDA r :
        IF r.ok /\ Key(h[id].fn, r.v) = k
        THEN GroupRunDropsLookahead(r.h, id, k, Append(acc, Getter(h[id].getter, r.v)))
        ELSE IF r.ok \/ r.exc = "StopIteration"
        THEN Yield([r.h EXCEPT ![id].items = <<>>, ![id].st = "yielded"], <<k, acc>>)
        ELSE [r EXCEPT !.h[id].st = "done"])

\* one group of itertools.groupby, collected eagerly (eager_group=True): the
\* elements are pulled while their key is k; the element that ends the group
\* is kept by itertools.groupby as the first of the next group
RECURSIVE GroupRun(_, _, _, _)
GroupRun(h, id, k, acc) ==
    Bind(ItNext(h, h[id].up), LAMBDA r :
        IF r.ok /\ Key(h[id].fn, r.v) = k
        THEN GroupRun(r.h, id, k, Append(acc, Getter(h[id].getter, r.v)))
        ELSE IF r.ok
        THEN Yield([r.h EXCEPT ![id].items = <<r.v>>, ![id].st = "yielded"], <<k, acc>>)
        ELSE IF r.exc = "StopIteration"
        THEN Yield([r.h EXCEPT ![id].items = <<>>, ![id].st = "yielded"], <<k, acc>>)
        ELSE [r EXCEPT !.h[id].st = "done"])

\* next() of groupby's generator _f:
\*     for key, group in it.groupby(iterable, key=key):
\*         yield key, Sequence(getter(e) for e in group).collect()
GroupbyNext(h, id) ==
    IF h[id].st = "done" THEN Stop(h)
    ELSE IF h[id].items # <<>>
    THEN GroupRun([h EXCEPT ![id].items = <<>>], id, Key(h[id].fn, Head(h[id].items)),
                  << Getter(h[id].getter, Head(h[id].items)) >>)
    ELSE Bind(ItNext(h, h[id].up), LAMBDA r :
            IF ~r.ok THEN [r EXCEPT !.h[id].st = "done"]
            ELSE GroupRun(r.h, id, Key(h[id].fn, r.v), << Getter(h[id].getter, r.v) >>))

\* groupby_step of itertools.groupby: the next element becomes currvalue and
\* its key currkey
GroupbyStep(h, id) ==
    Bind(ItNext(h, h[id].up), LAMBDA r :
        IF r.ok THEN [r EXCEPT !.h[id].items = << r.v >>,
                               !.h[id].currkey = Key(h[id].fn, r.v)]
        ELSE r)

\* groupby.__next__ of itertools.groupby skips to the next group: it steps
\* until there is a current key that differs from the key of the last group
RECURSIVE GroupbySkip(_, _)
GroupbySkip(h, id) ==
    IF h[id].currkey # None /\ (h[id].tgtkey = None \/ h[id].tgtkey # h[id].currkey)
    THEN Yield(h, None)
    ELSE Bind(GroupbyStep(h, id), LAMBDA r : IF r.ok THEN GroupbySkip(r.h, id) ELSE r)

\* next() of groupby's generator _f with eager_group=False:
\*     for key, group in it.groupby(iterable, key=key):
\*         yield key, Sequence(getter(e) for e in group)
\* The group is a new object, the current grouper; it is yielded by identity
LazyGroupbyNext(h, id) ==
    IF h[id].st = "done" THEN Stop(h)
    ELSE Bind(GroupbySkip([h EXCEPT ![id].currgrouper = 0], id), LAMBDA r :
            IF ~r.ok THEN [r EXCEPT !.h[id].st = "done"]
            ELSE Yield(Append([r.h EXCEPT ![id].tgtkey = r.h[id].currkey,
                                          ![id].currgrouper = Len(r.h) + 1,
                                          ![id].st = "yielded"],
                              [Obj("group", id, <<>>, 0, 0) EXCEPT
                                  !.tgtkey = r.h[id].currkey, !.getter = h[id].getter]),
                       << r.h[id].currkey, Len(r.h) + 1 >>))

\* a grouper that goes on after the groupby object has moved to another group
GroupNextStale(h, id) ==
    IF h[id].st = "done" THEN Stop(h)
    ELSE Bind(IF h[h[id].up].items = <<>> THEN GroupbyStep(h, h[id].up) ELSE Yield(h, None),
              LAMBDA r :
                IF ~r.ok THEN [r EXCEPT !.h[id].st = "done"]
                ELSE IF h[id].tgtkey # r.h[h[id].up].currkey
                THEN Stop([r.h EXCEPT ![id].st = "done"])
                ELSE Yield([r.h EXCEPT ![h[id].up].items = <<>>, ![id].st = "yielded"],
                           Getter(h[id].getter, Head(r.h[h[id].up].items))))

\* next() of a lazy group, (getter(e) for e in group) over _grouper.__next__:
\* a grouper that is not the current one of its groupby object is over; the
\* current one steps the groupby object when there is no currvalue, is over
\* when currkey is not its key, and else takes currvalue
GroupNext(h, id) ==
    IF h[id].st = "done" THEN Stop(h)
    ELSE IF h[h[id].up].currgrouper # id THEN Stop([h EXCEPT ![id].st = "done"])
    ELSE Bind(IF h[h[id].up].items = <<>> THEN GroupbyStep(h, h[id].up) ELSE Yield(h, None),
              LAMBDA r :
                IF ~r.ok THEN [r EXCEPT !.h[id].st = "done"]
                ELSE IF h[id].tgtkey # r.h[h[id].up].currkey
                THEN Stop([r.h EXCEPT ![id].st = "done"])
                ELSE Yield([r.h EXCEPT ![h[id].up].items = <<>>, ![id].st = "yielded"],
                           Getter(h[id].getter, Head(r.h[h[id].up].items))))

\* next(it) of any iterator object; counts the elements it produced
ItNext(h, id) ==
    Bind(CASE h[id].kind = "list" -> ListNext(h, id)
           [] h[id].kind = "take" -> TakeNext(h, id)
           [] h[id].kind = "chain" -> ChainNext(h, id)
           [] h[id].kind = "tee" -> TeeNext(h, id)
           [] h[id].kind = "window" -> WindowNext(h, id)
           [] h[id].kind = "map" -> MapNext(h, id)
           [] h[id].kind = "flatmap" -> FlatmapNext(h, id)
           [] h[id].kind = "filter" -> FilterNext(h, id)
           [] h[id].kind = "drop" -> DropNext(h, id)
           [] h[id].kind = "enumerate" -> EnumerateNext(h, id)
           [] h[id].kind = "groupby" -> GroupbyNext(h, id)
           [] h[id].kind = "lazygroupby" -> LazyGroupbyNext(h, id)
           [] h[id].kind = "group" -> GroupNext(h, id)
           [] OTHER -> Stop(h),
         LAMBDA r : IF r.ok THEN [r EXCEPT !.h[id].out = @ + 1] ELSE r)

\* list(it): pull until StopIteration; an exception ends it with what was pulled
RECURSIVE Drain(_, _, _)
Drain(h, id, acc) ==
    Bind(ItNext(h, id), LAMBDA r :
        IF r.ok THEN Drain(r.h, id, Append(acc, r.v))
        ELSE [h |-> r.h, out |-> acc,
              exc |-> IF r.exc = "StopIteration" THEN "" ELSE r.exc])

\* what draining iterator id would yield: the logical stream at id
Contents(h, id) == Drain(h, id, <<>>).out

\* ------------------------------------------------------------- operators
\* What a call of a Sequence method leaves: the heap, the Sequences, and the
\* call's result (res: a list; val: a single value; exc: the exception raised)
Ret(h, ss, res, val, exc) == [h |-> h, seqs |-> ss, res |-> res, val |-> val, exc |-> exc]

\* Sequence(_iterable=it) for an object that is an iterator already
NewSeq(h, ss, o) == Ret(Append(h, o), Append(ss, Len(h) + 1), <<>>, None, "")

\* a take that pulls an element from the cursor when it is called
takePullsAtCall(h, ss, s, count) ==
    Bind(ItNext(h, ss[s]), LAMBDA r : NewSeq(r.h, ss, Obj("take", ss[s], <<>>, count, 0)))

\* Sequence.take: lazily wraps the cursor in the generator _f
take(h, ss, s, count) == NewSeq(h, ss, Obj("take", ss[s], <<>>, count, 0))

\* Sequence.collect: list(self.all())
collect(h, ss, s) ==
    Bind(Drain(h, ss[s], <<>>), LAMBDA r : Ret(r.h, ss, r.out, None, r.exc))

\* self.take(count).collect(); the temporary Sequence and its generator are
\* unreachable afterwards
TakeCollect(h, ss, s, count) ==
    Bind(take(h, ss, s, count), LAMBDA t :
    Bind(collect(t.h, t.seqs, Len(t.seqs)), LAMBDA r :
        Ret(SubSeq(r.h, 1, Len(h)), ss, r.res, None, r.exc)))

\* Sequence.first
first(h, ss, s) ==
    Bind(TakeCollect(h, ss, s, 1), LAMBDA r :
        IF Len(r.res) = 0 THEN [r EXCEPT !.res = <<>>, !.val = None]
        ELSE [r EXCEPT !.res = <<>>, !.val = r.res[1]])

\* a push-back behind the cursor: it.chain(self._iterable, elements)
PrependBehind(h, ss, s, elements) ==
    [h |-> Append(Append(h, ListIter(elements)),
                  Obj("chain", 0, <<ss[s], Len(h) + 1>>, 0, 0)),
     seqs |-> [ss EXCEPT ![s] = Len(h) + 2]]

\* self._iterable = it.chain(elements, self._iterable)
Prepend(h, ss, s, elements) ==
    [h |-> Append(Append(h, ListIter(elements)),
                  Obj("chain", 0, <<Len(h) + 1, ss[s]>>, 0, 0)),
     seqs |-> [ss EXCEPT ![s] = Len(h) + 2]]

\* Sequence.peek(count), count is not None
peek(h, ss, s, count) ==
    Bind(TakeCollect(h, ss, s, count), LAMBDA r :
    Bind(Prepend(r.h, r.seqs, s, r.res), LAMBDA p :
        Ret(p.h, p.seqs, r.res, None, r.exc)))

\* Sequence.peek(), count is None
peekNone(h, ss, s) ==
    Bind(first(h, ss, s), LAMBDA r :
    Bind(Prepend(r.h, r.seqs, s, <<r.val>>), LAMBDA p :
        Ret(p.h, p.seqs, <<>>, r.val, r.exc)))

\* a concat without the tee: it.chain(a, b) over one shared cursor
concatShared(h, ss, s, t) == NewSeq(h, ss, Obj("chain", 0, <<ss[s], ss[t]>>, 0, 0))

\* Sequence.concat: tee when both are the same iterator, then chain
concat(h, ss, s, t) ==
    IF ss[t] = ss[s]
    THEN NewSeq(h \o << Obj("teedata", ss[t], <<>>, 0, 0),
                        Obj("tee", Len(h) + 1, <<>>, 0, 0),
                        Obj("tee", Len(h) + 1, <<>>, 0, 0) >>,
                ss, Obj("chain", 0, <<Len(h) + 2, Len(h) + 3>>, 0, 0))
    ELSE NewSeq(h, ss, Obj("chain", 0, <<ss[s], ss[t]>>, 0, 0))

\* Sequence.window: the assertion on stride is made at the call
window(h, ss, s, size, stride) ==
    IF ~(stride > 0) THEN Ret(h, ss, <<>>, None, "AssertionError")
    ELSE NewSeq(h, ss, Obj("window", ss[s], <<>>, size, stride))

\* Sequence.batch
batch(h, ss, s, size) == window(h, ss, s, size, size)

\* the functions passed to reduce: two that are neither commutative nor
\* associative, and the one count() passes, lambda acc, _: acc + 1
Fns == {"sub", "horner", "inc"}
Fn(fn, acc, item) ==
    CASE fn = "sub" -> acc - item
      [] fn = "horner" -> 2 * acc + item
      [] fn = "inc" -> acc + 1

\* the loop of reduce: for item in self._iterable: acc = fn(acc, item)
RECURSIVE ReduceLoop(_, _, _, _)
ReduceLoop(h, id, fn, acc) ==
    Bind(ItNext(h, id), LAMBDA r :
        IF r.ok THEN Bind(Fn(fn, acc, r.v), LAMBDA a : ReduceLoop(r.h, id, fn, a))
        ELSE [h |-> r.h, val |-> acc,
              exc |-> IF r.exc = "StopIteration" THEN "" ELSE r.exc])

\* a reduce that folds from the right end: fn(item, acc) for fn(acc, item)
ReduceLoopFlipped(h, id, fn, acc) ==
    Bind(ItNext(h, id), LAMBDA r :
        IF r.ok THEN Bind(Fn(fn, r.v, acc), LAMBDA a : ReduceLoop(r.h, id, fn, a))
        ELSE [h |-> r.h, val |-> acc,
              exc |-> IF r.exc = "StopIteration" THEN "" ELSE r.exc])

\* Sequence.reduce: without initial, acc = next(self._iterable), whose
\* StopIteration is not caught
reduce(h, ss, s, fn, initial) ==
    IF initial = None
    THEN Bind(ItNext(h, ss[s]), LAMBDA r :
            IF ~r.ok THEN Ret(r.h, ss, <<>>, None, r.exc)
            ELSE Bind(ReduceLoop(r.h, ss[s], fn, r.v), LAMBDA l :
                    Ret(l.h, ss, <<>>, l.val, l.exc)))
    ELSE Bind(ReduceLoop(h, ss[s], fn, initial), LAMBDA l :
            Ret(l.h, ss, <<>>, l.val, l.exc))

\* a count without the initial value 0: reduce seeds acc with the first element
countFromFirst(h, ss, s) == reduce(h, ss, s, "inc", None)

\* Sequence.count(), distinct=False
count(h, ss, s) == reduce(h, ss, s, "inc", 0)

\* datapad/__init__.py, Sequence.reduce: without initial, acc = next(iterable),
\* and no name iterable is bound there, so the lookup raises NameError before
\* anything is pulled
reducePackage(h, ss, s, fn, initial) ==
    IF initial = None
    THEN Ret(h, ss, <<>>, None, "NameError")
    ELSE Bind(ReduceLoop(h, ss[s], fn, initial), LAMBDA l :
            Ret(l.h, ss, <<>>, l.val, l.exc))

\* datapad/__init__.py, Sequence.count: for i, _ in enumerate(self._iterable):
\* pass; return i + 1, where i is unbound when the loop body never ran
countPackage(h, ss, s) ==
    Bind(Drain(h, ss[s], <<>>), LAMBDA d :
        IF d.exc # "" THEN Ret(d.h, ss, <<>>, None, d.exc)
        ELSE IF d.out = <<>> THEN Ret(d.h, ss, <<>>, None, "UnboundLocalError")
        ELSE Ret(d.h, ss, <<>>, (Len(d.out) - 1) + 1, ""))

\* next(seq.all()): the caller pulls one element
pull(h, ss, s) ==
    Bind(ItNext(h, ss[s]), LAMBDA r :
        Ret(r.h, ss, IF r.ok THEN <<r.v>> ELSE <<>>, None, r.exc))

\* a map that rebinds the cursor of the Sequence it is called on, as well as
\* returning the new Sequence
mapInPlace(h, ss, s, fn) ==
    Ret(Append(h, ObjFn("map", ss[s], fn, 0)),
        Append([ss EXCEPT ![s] = Len(h) + 1], Len(h) + 1), <<>>, None, "")

\* Sequence.map: wraps the cursor in the generator _f, which is not started
map(h, ss, s, fn) == NewSeq(h, ss, ObjFn("map", ss[s], fn, 0))

\* Sequence.flatmap
flatmap(h, ss, s, fn) == NewSeq(h, ss, ObjFn("flatmap", ss[s], fn, 0))

\* Sequence.keep_if; neg is 1 when fn is drop_if's lambda v: not fn(v)
keep_if(h, ss, s, fn, neg) == NewSeq(h, ss, ObjFn("filter", ss[s], fn, neg))

\* Sequence.filter: an alias of keep_if
filter(h, ss, s, fn, neg) == keep_if(h, ss, s, fn, neg)

\* a drop_if that passes fn itself to filter
drop_ifNotNegated(h, ss, s, fn) == filter(h, ss, s, fn, 0)

\* Sequence.drop_if: self.filter(lambda v: not fn(v))
drop_if(h, ss, s, fn) == filter(h, ss, s, fn, 1)

\* a drop that skips the n elements when it is called, not when it is pulled
RECURSIVE Skip(_, _, _)
Skip(h, id, n) ==
    IF n <= 0 THEN h
    ELSE Bind(ItNext(h, id), LAMBDA r : IF r.ok THEN Skip(r.h, id, n - 1) ELSE r.h)

dropAtCall(h, ss, s, n) ==
    Bind(Skip(h, ss[s], n), LAMBDA h1 : NewSeq(h1, ss, Obj("drop", ss[s], <<>>, 0, 0)))

\* Sequence.drop
drop(h, ss, s, n) == NewSeq(h, ss, Obj("drop", ss[s], <<>>, n, 0))

\* Sequence.zip_with_index: enumerate(self._iterable)
zip_with_index(h, ss, s) == NewSeq(h, ss, Obj("enumerate", ss[s], <<>>, 0, 0))

\* Sequence.groupby with eager_group=True
groupby(h, ss, s, key, getter) ==
    NewSeq(h, ss, [ObjFn("groupby", ss[s], key, 0) EXCEPT !.getter = getter])

\* Sequence.groupby with eager_group=False
groupby_lazy(h, ss, s, key, getter) ==
    NewSeq(h, ss, [ObjFn("lazygroupby", ss[s], key, 0) EXCEPT !.getter = getter])

\* a dict that moves a key to the end when it is inserted again
RECURSIVE FromKeysLast(_, _)
FromKeysLast(xs, keys) ==
    IF xs = <<>> THEN keys
    ELSE FromKeysLast(Tail(xs), Append(SelectSeq(keys, LAMBDA k : k # Head(xs)), Head(xs)))

\* collections.OrderedDict.fromkeys(xs).keys(): a key is inserted at its first
\* occurrence and keeps its place
RECURSIVE FromKeys(_, _)
FromKeys(xs, keys) ==
    IF xs = <<>> THEN keys
    ELSE FromKeys(Tail(xs), IF \E k \in 1..Len(keys) : keys[k] = Head(xs) THEN keys
                            ELSE Append(keys, Head(xs)))

\* Sequence.distinct: OrderedDict.fromkeys(list(self)), then a Sequence of its keys
distinct(h, ss, s) ==
    Bind(Drain(h, ss[s], <<>>), LAMBDA r :
        IF r.exc # "" THEN Ret(r.h, ss, <<>>, None, r.exc)
        ELSE NewSeq(r.h, ss, ListIter(FromKeys(r.out, <<>>))))

\* Sequence.__init__ with _iterable=None: iter([])
SequenceOfNone(h, ss) == NewSeq(h, ss, ListIter(<<>>))

\* a constructor that copies what is left of the iterator into a list of its own
SequenceOfCopy(h, ss, it) == NewSeq(h, ss, ListIter(Contents(h, it)))

\* Sequence.__init__ with an Iterator (or with a Sequence, whose iter() is its
\* cursor): self._iterable is that object
SequenceOf(h, ss, it) == Ret(h, Append(ss, it), <<>>, None, "")

\* --------------------------------------------------------------- actions
Counts == 0..MaxCount
SeqIds == 1..Len(seqs)

\* no pmap was called: there is no pool
\*   made      pmap was called: ThreadPool(workers) exists, its threads run
\*   job       the imap job: "none" until the generator _f starts and calls
\*             apply(fn, seq), then "active" while the task handler pulls seq,
\*             then "done" (the length is set)
\*   ti        the index of the next task
\*   inq, outq the pool's task queue and result queue
\*   wk        per worker thread: <<>> when idle, else the task in hand
\*   items, index, length, unsorted   the fields of IMapIterator
\*   got       what the consumer received, in order
\*   src       the logical stream of the upstream when pmap was called
\*   out0      how many elements the upstream had produced when pmap was called
\*   fn        the function passed to pmap
\*   alive     the threads of the pool are alive
\*   halted    the consumer will not call next() on the generator again
\*   exc       what the generator raised to the consumer
NoPool ==
    [made |-> FALSE, ordered |-> TRUE, workers |-> 0, up |-> 0, gen |-> 0, job |-> "none",
     ti |-> 0, inq |-> <<>>, wk |-> <<>>, outq |-> <<>>, items |-> <<>>, index |-> 0,
     length |-> None, unsorted |-> {}, got |-> <<>>, done |-> FALSE, src |-> <<>>,
     out0 |-> 0, fn |-> "double", alive |-> FALSE, halted |-> FALSE, exc |-> ""]

\* A call of a Sequence method: cost calls are counted against budget
Call(budget, cost, op, s, arg, arg2, ret) ==
    /\ nops + cost <= budget
    /\ nops' = nops + cost
    /\ UNCHANGED pool
    /\ \E r \in {ret} :
          /\ heap' = r.h
          /\ seqs' = r.seqs
          /\ last' = [op |-> op, self |-> s, arg |-> arg, arg2 |-> arg2, res |-> r.res,
                      val |-> r.val, exc |-> r.exc, h |-> heap, seqs |-> seqs]

NoCall == [op |-> "init", self |-> 0, arg |-> 0, arg2 |-> 0, res |-> <<>>,
           val |-> None, exc |-> "", h |-> heap, seqs |-> seqs]

\* seq = Sequence(xs)
InitOn(xss) ==
    /\ \E xs \in xss : heap = << ListIter(xs) >>
    /\ seqs = << 1 >>
    /\ nops = 0
    /\ last = NoCall
    /\ pool = NoPool

\* The cursor operators: take, first, peek, concat, collect and single pulls,
\* on any of the Sequences made so far
Init == InitOn(Inputs)

Take == \E s \in SeqIds, n \in Counts : Call(MaxOps, 1, "take", s, n, 0, take(heap, seqs, s, n))
Collect == \E s \in SeqIds : Call(MaxOps, 1, "collect", s, 0, 0, collect(heap, seqs, s))
First == \E s \in SeqIds : Call(MaxOps, 1, "first", s, 0, 0, first(heap, seqs, s))
Peek == \E s \in SeqIds, n \in Counts : Call(MaxOps, 1, "peek", s, n, 0, peek(heap, seqs, s, n))
PeekNone == \E s \in SeqIds : Call(MaxOps, 1, "peekNone", s, 0, 0, peekNone(heap, seqs, s))
Concat == \E s \in SeqIds, t \in SeqIds : Call(MaxOps, 1, "concat", s, t, 0, concat(heap, seqs, s, t))
Pull == \E s \in SeqIds : Call(MaxOps, 1, "pull", s, 0, 0, pull(heap, seqs, s))

Next == Take \/ Collect \/ First \/ Peek \/ PeekNone \/ Concat \/ Pull

Spec == Init /\ [][Next]_vars

\* window and batch, with any integer arguments, in a pipeline: each call is
\* made on the newest Sequence, which is then drained by collect or pull by pull
WinInputs == { Range(n) : n \in 0..MaxWinLen }
Sizes == -1..MaxSize
Newest == Len(seqs)

InitWindow == InitOn(WinInputs)

Window ==
    \E size \in Sizes, stride \in Sizes :
        Call(MaxWinOps, 1, "window", Newest, size, stride,
             window(heap, seqs, Newest, size, stride))
Batch ==
    \E size \in Sizes :
        Call(MaxWinOps, 1, "batch", Newest, size, size, batch(heap, seqs, Newest, size))
WinCollect == Call(MaxWinOps, 0, "collect", Newest, 0, 0, collect(heap, seqs, Newest))
WinPull == Call(MaxWinOps, 0, "pull", Newest, 0, 0, pull(heap, seqs, Newest))

NextWindow == Window \/ Batch \/ WinCollect \/ WinPull

SpecWindow == InitWindow /\ [][NextWindow]_vars

\* reduce and count on a source with repeated elements, whole or partly pulled
RECURSIVE SeqsUpTo(_)
SeqsUpTo(n) ==
    IF n = 0 THEN { <<>> }
    ELSE SeqsUpTo(n - 1) \cup
         { Append(s, e) : s \in { t \in SeqsUpTo(n - 1) : Len(t) = n - 1 }, e \in 1..MaxElem }

RedInputs == SeqsUpTo(MaxRedLen)
Initials == {None} \cup 0..MaxInit

InitReduce == InitOn(RedInputs)

Reduce ==
    \E s \in SeqIds, fn \in {"sub", "horner"}, initial \in Initials :
        Call(MaxRedOps, 1, "reduce", s, fn, initial, reduce(heap, seqs, s, fn, initial))
Count == \E s \in SeqIds : Call(MaxRedOps, 1, "count", s, 0, 0, count(heap, seqs, s))
RedPull == \E s \in SeqIds : Call(MaxRedOps, 1, "pull", s, 0, 0, pull(heap, seqs, s))

NextReduce == Reduce \/ Count \/ RedPull

SpecReduce == InitReduce /\ [][NextReduce]_vars

\* the two Sequence classes side by side: reduce and count of the class of
\* datapad/__init__.py and of the class of datapad/sequence.py, on the same
\* inputs, partly pulled ones included
InitPackage == InitOn(RedInputs)

ReducePackage ==
    \E s \in SeqIds, fn \in {"sub", "horner"}, initial \in Initials :
        Call(MaxRedOps, 1, "reducePackage", s, fn, initial,
             reducePackage(heap, seqs, s, fn, initial))
CountPackage ==
    \E s \in SeqIds : Call(MaxRedOps, 1, "countPackage", s, 0, 0, countPackage(heap, seqs, s))

NextPackage == ReducePackage \/ CountPackage \/ Reduce \/ Count \/ RedPull

SpecPackage == InitPackage /\ [][NextPackage]_vars

\* pmap: the threads of the pool and the consumer, one step at a time; the
\* function passed to pmap is F, as in test_pmap

PmapInputs == { xs \in SeqsUpTo(MaxPmapLen) : TRUE }

InitPmap == InitOn(PmapInputs)

\* the caller pulls the source before pmap is called
PmapSourcePull ==
    /\ ~pool.made
    /\ \E s \in SeqIds : Call(1, 1, "pull", s, 0, 0, pull(heap, seqs, s))

\* pool = ThreadPool(workers): the threads of the pool are started at once
ThreadPool(p, w) ==
    [p EXCEPT !.workers = w, !.wk = [k \in 1..w |-> <<>>], !.alive = TRUE]

\* seq.pmap(fn, workers, ordered): ThreadPool(workers) is made at the call; the
\* generator _f is wrapped in a new Sequence and not started
pmap(s, fn, w, o) ==
    /\ ~pool.made
    /\ heap' = Append(heap, Obj("pmap", seqs[s], <<>>, w, 0))
    /\ seqs' = Append(seqs, Len(heap) + 1)
    /\ pool' = ThreadPool([NoPool EXCEPT !.made = TRUE, !.ordered = o, !.fn = fn,
                                         !.up = seqs[s], !.gen = Len(heap) + 1,
                                         !.src = Contents(heap, seqs[s]),
                                         !.out0 = heap[seqs[s]].out], w)
    /\ last' = [NoCall EXCEPT !.op = "pmap", !.self = s, !.arg = w]
    /\ UNCHANGED nops

\* seq.pmap(lambda v: v*2, workers, ordered), as in test_pmap
Pmap == \E s \in SeqIds, w \in 1..MaxWorkers, o \in BOOLEAN : pmap(s, "double", w, o)

\* the consumer's first next() on the generator: apply(fn, seq) hands the task
\* generator over seq to the task handler thread
PmapStart ==
    /\ pool.made /\ pool.job = "none"
    /\ pool' = [pool EXCEPT !.job = "active"]
    /\ heap' = [heap EXCEPT ![pool.gen].st = "yielded"]
    /\ UNCHANGED <<seqs, last, nops>>

\* the task handler thread, the only thread that pulls seq: the next element
\* becomes task ti on the task queue; at StopIteration it sets the length
TaskNext(p, r) ==
    IF r.ok THEN [p EXCEPT !.inq = Append(@, [i |-> p.ti, x |-> r.v]), !.ti = @ + 1]
    ELSE [p EXCEPT !.job = "done", !.length = p.ti]

TaskHandler ==
    /\ pool.alive /\ pool.job = "active"
    /\ \E r \in {ItNext(heap, pool.up)} :
          /\ heap' = r.h
          /\ pool' = TaskNext(pool, r)
    /\ UNCHANGED <<seqs, last, nops>>

\* a worker that reads the task at the head of the queue and leaves it there
WorkerGetShared(p, w) == [p EXCEPT !.wk[w] = <<Head(p.inq)>>]

\* an idle worker thread takes the task at the head of the task queue
WorkerGet(p, w) == [p EXCEPT !.wk[w] = <<Head(p.inq)>>, !.inq = Tail(@)]

\* a worker thread applies fn to its task and puts the result on the result
\* queue: (True, fn(x)), or (False, e) when fn raised e
WorkerPut(p, w) ==
    Bind(Apply(p.fn, p.wk[w][1].x), LAMBDA a :
        [p EXCEPT !.outq = Append(@, [i |-> p.wk[w][1].i, ok |-> a.ok, v |-> a.v,
                                      exc |-> a.exc]),
                  !.wk[w] = <<>>])

Worker ==
    /\ pool.alive
    /\ \E w \in 1..pool.workers :
          \/ pool.wk[w] = <<>> /\ pool.inq # <<>> /\ pool' = WorkerGet(pool, w)
          \/ pool.wk[w] # <<>> /\ pool' = WorkerPut(pool, w)
    /\ UNCHANGED <<heap, seqs, last, nops>>

\* IMapIterator._set: while self._index in self._unsorted, move it to _items
RECURSIVE Flush(_)
Flush(p) ==
    IF \E o \in p.unsorted : o.i = p.index
    THEN Bind(CHOOSE o \in p.unsorted : o.i = p.index, LAMBDA o :
            Flush([p EXCEPT !.items = Append(@, o), !.index = @ + 1,
                            !.unsorted = @ \ {o}]))
    ELSE p

\* IMapIterator._set(i, obj), of pool.imap
ImapSet(p, obj) ==
    IF p.index = obj.i
    THEN Flush([p EXCEPT !.items = Append(@, obj), !.index = @ + 1])
    ELSE [p EXCEPT !.unsorted = @ \cup {obj}]

\* IMapUnorderedIterator._set(i, obj), of pool.imap_unordered
ImapUnorderedSet(p, obj) == [p EXCEPT !.items = Append(@, obj), !.index = @ + 1]

\* the choice inverted: pool.imap_unordered if ordered else pool.imap
ApplySetInverted(p, obj) ==
    IF p.ordered THEN ImapUnorderedSet(p, obj) ELSE ImapSet(p, obj)

\* apply = pool.imap_unordered if not ordered else pool.imap
ApplySet(p, obj) ==
    IF ~p.ordered THEN ImapUnorderedSet(p, obj) ELSE ImapSet(p, obj)

\* the result handler thread takes a result off the result queue and sets it
ResultHandler ==
    /\ pool.alive /\ pool.outq # <<>>
    /\ pool' = ApplySet([pool EXCEPT !.outq = Tail(@)], Head(pool.outq))
    /\ UNCHANGED <<heap, seqs, last, nops>>

\* collect() on the pmap Sequence: for result in apply(fn, seq): yield result.
\* IMapIterator.next pops _items: it returns the value of a result (True, value)
\* and raises the value of a result (False, value), which leaves the generator
\* through its frame and finishes it; it raises StopIteration when _items is
\* empty and _index == _length, and waits otherwise
Consumer ==
    /\ pool.job # "none" /\ ~pool.done /\ ~pool.halted
    /\ \/ /\ pool.items # <<>> /\ Head(pool.items).ok
          /\ pool' = [pool EXCEPT !.items = Tail(@), !.got = Append(@, Head(pool.items))]
          /\ heap' = [heap EXCEPT ![pool.gen].out = @ + 1]
          /\ UNCHANGED last
       \/ /\ pool.items # <<>> /\ ~Head(pool.items).ok
          /\ pool' = [pool EXCEPT !.items = Tail(@), !.done = TRUE,
                                  !.exc = Head(pool.items).exc]
          /\ heap' = [heap EXCEPT ![pool.gen].st = "done"]
          /\ last' = [NoCall EXCEPT !.op = "collect", !.self = Len(seqs),
                                    !.exc = Head(pool.items).exc]
       \/ /\ pool.items = <<>> /\ pool.index = pool.length
          /\ pool' = [pool EXCEPT !.done = TRUE]
          /\ heap' = [heap EXCEPT ![pool.gen].st = "done"]
          /\ last' = [NoCall EXCEPT !.op = "collect", !.self = Len(seqs),
                                    !.res = [k \in 1..Len(pool.got) |-> pool.got[k].v]]
    /\ UNCHANGED <<seqs, nops>>

NextPmap ==
    PmapSourcePull \/ Pmap \/ PmapStart \/ TaskHandler \/ Worker \/ ResultHandler \/ Consumer

SpecPmap == InitPmap /\ [][NextPmap]_vars

\* pmap with a function that may raise, a consumer that may stop pulling, and
\* the end of the pool
PmapLifeInputs == { Range(n) : n \in 0..MaxPmapLen }

InitPmapLife == InitOn(PmapLifeInputs)

\* seq.pmap(fn, workers, ordered) with any of the functions
PmapFn ==
    \E s \in SeqIds, fn \in MapFns, w \in 1..MaxWorkers, o \in BOOLEAN : pmap(s, fn, w, o)

\* pmap(fn).take(n).collect() returned: take's generator left its loop after
\* the n-th element, and nothing calls next() on the generator of pmap again
ConsumerHalt ==
    /\ pool.job # "none" /\ ~pool.done /\ ~pool.halted
    /\ Len(pool.got) >= 1
    /\ pool' = [pool EXCEPT !.halted = TRUE]
    /\ last' = [NoCall EXCEPT !.op = "take", !.self = Len(seqs), !.arg = Len(pool.got),
                              !.res = [k \in 1..Len(pool.got) |-> pool.got[k].v]]
    /\ UNCHANGED <<heap, seqs, nops>>

\* pmap never closes, terminates or joins its pool: the threads live until the
\* finished generator, whose closure is the only holder of the pool, is
\* reclaimed, at a moment the program does not choose
PoolFinalize ==
    /\ pool.alive /\ pool.done
    /\ pool' = [pool EXCEPT !.alive = FALSE]
    /\ UNCHANGED <<heap, seqs, last, nops>>

NextPmapLife ==
    PmapFn \/ PmapStart \/ TaskHandler \/ Worker \/ ResultHandler \/ Consumer
        \/ ConsumerHalt \/ PoolFinalize

SpecPmapLife == InitPmapLife /\ [][NextPmapLife]_vars

\* Pipelines of all the operators: each call is made on the newest Sequence,
\* which is pulled or drained at any moment between the calls. The calls that
\* build or rebind a Sequence are counted; pulls are bounded by the source.
PipeInputs == { Range(n) : n \in 0..MaxPipeLen }
PipeArgs == 0..MaxPipeArg

InitPipe == InitOn(PipeInputs)

\* the elements of the stream at iterator id are the integers of the source:
\* no enumerate, window or groupby made tuples or lists of them
RECURSIVE IntStream(_, _)
IntStream(h, id) ==
    CASE h[id].kind \in {"enumerate", "window", "groupby", "lazygroupby"} -> FALSE
      [] h[id].kind \in {"list", "pmap"} -> TRUE
      [] h[id].kind = "chain" ->
            \A k \in 1..Len(h[id].items) : IntStream(h, h[id].items[k])
      [] h[id].kind = "tee" -> IntStream(h, h[h[id].up].up)
      [] OTHER -> IntStream(h, h[id].up)

\* the functions passed are defined on integers
OnInts == IntStream(heap, seqs[Newest])

PipeCall(cost, op, arg, arg2, ret) ==
    ~pool.made /\ Call(MaxPipeOps, cost, op, Newest, arg, arg2, ret)

PipeMap ==
    OnInts /\ \E fn \in MapFns : PipeCall(1, "map", fn, 0, map(heap, seqs, Newest, fn))
PipeFlatmap ==
    OnInts /\ \E fn \in FlatFns :
        PipeCall(1, "flatmap", fn, 0, flatmap(heap, seqs, Newest, fn))
PipeKeepIf ==
    OnInts /\ \E fn \in Preds :
        PipeCall(1, "keep_if", fn, 0, keep_if(heap, seqs, Newest, fn, 0))
PipeDropIf ==
    OnInts /\ \E fn \in Preds :
        PipeCall(1, "drop_if", fn, 0, drop_if(heap, seqs, Newest, fn))
PipeDrop == \E n \in PipeArgs : PipeCall(1, "drop", n, 0, drop(heap, seqs, Newest, n))
PipeTake == \E n \in PipeArgs : PipeCall(1, "take", n, 0, take(heap, seqs, Newest, n))
PipeZipWithIndex == PipeCall(1, "zip_with_index", 0, 0, zip_with_index(heap, seqs, Newest))
PipeWindow ==
    \E size \in 1..MaxPipeArg, stride \in 0..1 :
        PipeCall(1, "window", size, stride, window(heap, seqs, Newest, size, stride))
PipeBatch ==
    \E size \in 1..MaxPipeArg : PipeCall(1, "batch", size, size, batch(heap, seqs, Newest, size))
PipeGroupby ==
    OnInts /\ \E key \in KeyFns, getter \in Getters :
        PipeCall(1, "groupby", key, getter, groupby(heap, seqs, Newest, key, getter))
PipeConcat ==
    \E t \in {1, Newest} : PipeCall(1, "concat", t, 0, concat(heap, seqs, Newest, t))
PipePeek == \E n \in PipeArgs : PipeCall(1, "peek", n, 0, peek(heap, seqs, Newest, n))
PipePeekNone == PipeCall(1, "peekNone", 0, 0, peekNone(heap, seqs, Newest))
PipeDistinct == OnInts /\ PipeCall(1, "distinct", 0, 0, distinct(heap, seqs, Newest))
PipeSequenceOf ==
    PipeCall(1, "Sequence", seqs[Newest], 0, SequenceOf(heap, seqs, seqs[Newest]))
PipeSequenceOfNone == PipeCall(1, "SequenceNone", 0, 0, SequenceOfNone(heap, seqs))
PipeCollect == PipeCall(0, "collect", 0, 0, collect(heap, seqs, Newest))
PipePull == PipeCall(0, "pull", 0, 0, pull(heap, seqs, Newest))

\* pmap starts threads: it is called on the source, before any other call
PipePmap == nops = 0 /\ Pmap

NextPipe ==
    \/ PipeMap \/ PipeFlatmap \/ PipeKeepIf \/ PipeDropIf \/ PipeDrop \/ PipeTake
    \/ PipeZipWithIndex \/ PipeWindow \/ PipeBatch \/ PipeGroupby \/ PipeConcat
    \/ PipePeek \/ PipePeekNone \/ PipeDistinct \/ PipeSequenceOf \/ PipeSequenceOfNone
    \/ PipeCollect \/ PipePull
    \/ PipePmap \/ PmapStart \/ TaskHandler \/ Worker \/ ResultHandler \/ Consumer

SpecPipe == InitPipe /\ [][NextPipe]_vars

\* groupby and distinct on sources with repeated elements, whole or partly
\* pulled: one call on the source, whose result is pulled or collected
GrpInputs ==
    { xs \in UNION { [1..n -> 1..MaxGrpElem] : n \in 0..MaxGrpLen } : TRUE }

InitGroup == InitOn(GrpInputs)

GrpCall(cost, op, arg, arg2, ret) == Call(MaxGrpOps, cost, op, Newest, arg, arg2, ret)

GrpGroupby ==
    OnInts /\ \E key \in KeyFns, getter \in Getters :
        GrpCall(1, "groupby", key, getter, groupby(heap, seqs, Newest, key, getter))
GrpDistinct == OnInts /\ GrpCall(1, "distinct", 0, 0, distinct(heap, seqs, Newest))
GrpCollect == GrpCall(0, "collect", 0, 0, collect(heap, seqs, Newest))
GrpPull == GrpCall(0, "pull", 0, 0, pull(heap, seqs, Newest))

NextGroup == GrpGroupby \/ GrpDistinct \/ GrpCollect \/ GrpPull

SpecGroup == InitGroup /\ [][NextGroup]_vars

\* groupby(eager_group=False): the consumer pulls the outer Sequence and the
\* groups it was given in any order. From the call on, last.res is what the
\* consumer has of each group, in the order the groups were yielded:
\* <<key, the elements the group delivered, the identity of the group,
\*   whether the group was drained to its end while it was the current one,
\*   how many elements it delivered after the outer cursor had moved on>>
LazyInputs == SeqsUpTo(MaxGrpLen)

InitLazyGroup == InitOn(LazyInputs)

LazyGroupby ==
    OnInts /\ \E key \in KeyFns, getter \in Getters :
        GrpCall(1, "groupby_lazy", key, getter, groupby_lazy(heap, seqs, Newest, key, getter))

\* the group is the current one of its groupby object
IsCurrent(h, gid) == h[h[gid].up].currgrouper = gid

\* next() on the outer Sequence
LazyOuterPull ==
    /\ last.op = "groupby_lazy"
    /\ \E r \in {ItNext(heap, seqs[Newest])} :
          /\ heap' = r.h
          /\ last' = [last EXCEPT
                        !.res = IF r.ok THEN Append(@, << r.v[1], <<>>, r.v[2], FALSE, 0 >>)
                                ELSE @]
    /\ UNCHANGED <<seqs, nops, pool>>

\* next() on one of the groups
LazyGroupPull ==
    /\ last.op = "groupby_lazy"
    /\ \E j \in 1..Len(last.res) :
          \E r \in {ItNext(heap, last.res[j][3])} :
              /\ heap' = r.h
              /\ last' = [last EXCEPT
                            !.res[j][2] = IF r.ok THEN Append(@, r.v) ELSE @,
                            !.res[j][4] = @ \/ (~r.ok /\ IsCurrent(heap, last.res[j][3])),
                            !.res[j][5] = IF r.ok /\ ~IsCurrent(heap, last.res[j][3])
                                          THEN @ + 1 ELSE @]
    /\ UNCHANGED <<seqs, nops, pool>>

NextLazyGroup == LazyGroupby \/ LazyOuterPull \/ LazyGroupPull

SpecLazyGroup == InitLazyGroup /\ [][NextLazyGroup]_vars

\* ------------------------------------------------------------ fields.apply
\* Python values: a function by its name, a list by its items, a dict by its
\* <<key, value>> items in insertion order, keys as PyInt or PyStr
PyFn(fn) == [fn |-> fn, t |-> "function"]
PyStr(x) == [v |-> x, t |-> "str"]
PyList(items) == [items |-> items, t |-> "list"]
PyDict(items) == [items |-> items, t |-> "dict"]
PyNone == [t |-> "NoneType"]

KeyEq(a, b) == a.t = b.t /\ a.v = b.v
HasKey(d, key) == \E i \in 1..Len(d.items) : KeyEq(d.items[i][1], key)
GetItem(d, key) == d.items[CHOOSE i \in 1..Len(d.items) : KeyEq(d.items[i][1], key)][2]
SetItem(items, key, value) ==
    IF \E i \in 1..Len(items) : KeyEq(items[i][1], key)
    THEN [i \in 1..Len(items) |->
             IF KeyEq(items[i][1], key) THEN << key, value >> ELSE items[i]]
    ELSE Append(items, << key, value >>)

\* the functions of the doctests of apply: lambda x: x * 2 and lambda x: x*3
FieldFns == {"double", "triple"}
FieldFn(fn, x) == IF fn = "double" THEN F(x) ELSE 3 * x

\* apply(*args): the funcs the returned function closes over, or ValueError
apply(args) ==
    IF Len(args) = 1
    THEN IF args[1].t = "list"
         THEN [exc |-> "",
               funcs |-> PyDict([i \in 1..Len(args[1].items) |->
                                    << PyInt(i - 1), args[1].items[i] >>])]
         ELSE [exc |-> "", funcs |-> args[1]]
    ELSE IF Len(args) = 2
         THEN [exc |-> "", funcs |-> PyDict(<< << args[1], args[2] >> >>)]
         ELSE [exc |-> "ValueError", funcs |-> PyNone]

\* the loop over a list: for key, value in enumerate(data)
RECURSIVE ApplyList(_, _, _, _)
ApplyList(funcs, items, i, new_data) ==
    IF i > Len(items) THEN [ok |-> TRUE, v |-> PyList(new_data), exc |-> ""]
    ELSE IF funcs.t \notin {"list", "dict"}
         THEN ApplyList(funcs, items, i + 1, Append(new_data, FieldFn(funcs.fn, items[i])))
         ELSE IF ~HasKey(funcs, PyInt(i - 1))
              THEN ApplyList(funcs, items, i + 1, Append(new_data, items[i]))
              ELSE ApplyList(funcs, items, i + 1,
                             Append(new_data,
                                    FieldFn(GetItem(funcs, PyInt(i - 1)).fn, items[i])))

\* the loop over a dict: for key, value in data.items(). With a single
\* function the code stores under new_data[data], and data, a dict, is
\* unhashable
RECURSIVE ApplyDict(_, _, _, _)
ApplyDict(funcs, items, i, new_data) ==
    IF i > Len(items) THEN [ok |-> TRUE, v |-> PyDict(new_data), exc |-> ""]
    ELSE IF funcs.t \notin {"list", "dict"}
         THEN [ok |-> FALSE, v |-> PyNone, exc |-> "TypeError"]
         ELSE IF ~HasKey(funcs, items[i][1])
              THEN ApplyDict(funcs, items, i + 1,
                             SetItem(new_data, items[i][1], items[i][2]))
              ELSE ApplyDict(funcs, items, i + 1,
                             SetItem(new_data, items[i][1],
                                     FieldFn(GetItem(funcs, items[i][1]).fn, items[i][2])))

\* apply(...)._function(data): new_data is bound only for a list or a dict
_function(funcs, data) ==
    IF data.t = "list" THEN ApplyList(funcs, data.items, 1, <<>>)
    ELSE IF data.t = "dict" THEN ApplyDict(funcs, data.items, 1, <<>>)
    ELSE [ok |-> FALSE, v |-> PyNone, exc |-> "UnboundLocalError"]

\* the keys of the dicts of the doctests
Names == << "a", "b", "c", "d" >>

\* {'a': xs[0], 'b': xs[1], ...}
DictOf(xs) == PyDict([i \in 1..Len(xs) |-> << PyStr(Names[i]), xs[i] >>])

\* the fields of a list or dict: up to MaxFields elements of 1..MaxElem
FieldValues == SeqsUpTo(MaxFields)
FieldFnLists == UNION { [1..n -> FieldFns] : n \in 0..MaxFields }

InitFields ==
    /\ heap = <<>> /\ seqs = <<>> /\ nops = 0 /\ pool = NoPool
    /\ last = NoCall

\* F = apply(*args); F(data)
FieldsCall(args, data) ==
    \E a \in {apply(args)} :
        \E r \in {IF a.exc # "" THEN [ok |-> FALSE, v |-> PyNone, exc |-> a.exc]
                   ELSE _function(a.funcs, data)} :
            /\ last' = [NoCall EXCEPT !.op = "apply", !.arg = args, !.arg2 = data,
                                      !.val = r.v, !.exc = r.exc]
            /\ UNCHANGED <<heap, seqs, nops, pool>>

\* F(data) on a list, on a dict, and on a value that is neither
FieldsOn(args) ==
    \/ \E xs \in FieldValues : FieldsCall(args, PyList(xs))
    \/ \E xs \in FieldValues : FieldsCall(args, DictOf(xs))
    \/ \E x \in 1..MaxElem : FieldsCall(args, PyInt(x))

\* the ways to call apply: (func), (funcs: list), (key, func) and
\* (funcs: dict) with an index or a name as key, and no argument at all
FieldsApply ==
    \/ \E f \in FieldFns : FieldsOn(<< PyFn(f) >>)
    \/ \E fs \in FieldFnLists :
          FieldsOn(<< PyList([i \in 1..Len(fs) |-> PyFn(fs[i])]) >>)
    \/ \E i \in 0..(MaxFields - 1), f \in FieldFns :
          \/ FieldsOn(<< PyInt(i), PyFn(f) >>)
          \/ FieldsOn(<< PyDict(<< << PyInt(i), PyFn(f) >> >>) >>)
    \/ \E i \in 1..MaxFields, f \in FieldFns :
          \/ FieldsOn(<< PyStr(Names[i]), PyFn(f) >>)
          \/ FieldsOn(<< PyDict(<< << PyStr(Names[i]), PyFn(f) >> >>) >>)
    \/ FieldsOn(<<>>)

NextFields == FieldsApply

SpecFields == InitFields /\ [][NextFields]_vars

\* ---------------------------------------------------------------- claims
FirstN(xs, n) == SubSeq(xs, 1, IF n < Len(xs) THEN n ELSE Len(xs))

\* the iterator the last call's Sequence wrapped before the call, and the object
LastIt == last.seqs[last.self]
LastObj == last.h[LastIt]

\* C3: draining a fresh take(n), for every n >= 0, yields the first n elements
\* of the upstream (at most n) and pulls at most n elements from the upstream
C3_TakePullsAtMostN ==
    (last.op = "collect" /\ LastObj.kind = "take" /\ LastObj.st = "start") =>
        /\ Len(last.res) <= LastObj.n
        /\ heap[LastObj.up].out - last.h[LastObj.up].out <= LastObj.n
        /\ last.res = FirstN(Contents(last.h, LastObj.up), LastObj.n)

\* C3 holds of the code for n >= 1: take(0) is the only failure
C3_TakePullsAtMostN_Positive ==
    (last.op = "collect" /\ LastObj.kind = "take" /\ LastObj.st = "start"
        /\ LastObj.n >= 1) =>
        /\ Len(last.res) <= LastObj.n
        /\ heap[LastObj.up].out - last.h[LastObj.up].out <= LastObj.n
        /\ last.res = FirstN(Contents(last.h, LastObj.up), LastObj.n)

\* a fresh self-concat: chain(a, b) of the two iterators of one tee, nothing pulled
IsSelfConcat(h, id) ==
    /\ h[id].kind = "chain" /\ Len(h[id].items) = 2
    /\ h[h[id].items[1]].kind = "tee" /\ h[h[id].items[2]].kind = "tee"
    /\ h[h[id].items[1]].up = h[h[id].items[2]].up
    /\ h[h[id].items[1]].pos = 0 /\ h[h[id].items[2]].pos = 0
    /\ h[h[h[id].items[1]].up].items = <<>>

\* the cursor s wrapped when s.concat(s) was called
SelfConcatSource(h, id) == h[h[h[id].items[1]].up].up

\* C6: collect() on what s.concat(s) returned yields the remaining elements of
\* s, then the same elements again: right after the call, and whenever such a
\* Sequence is collected later
C6_SelfConcatTwice ==
    /\ (last.op = "concat" /\ last.self = last.arg) =>
          collect(heap, seqs, Len(seqs)).res
              = Contents(last.h, LastIt) \o Contents(last.h, LastIt)
    /\ (last.op = "collect" /\ IsSelfConcat(last.h, LastIt)) =>
          last.res = Contents(last.h, SelfConcatSource(last.h, LastIt))
                     \o Contents(last.h, SelfConcatSource(last.h, LastIt))

C6_Witness ==
    /\ last.op = "collect" /\ IsSelfConcat(last.h, LastIt)
    /\ Len(last.res) = 4 /\ last.res[1] = 2 /\ last.res[3] = 2

C6_WitnessCall ==
    /\ last.op = "concat" /\ last.self = last.arg
    /\ Len(Contents(last.h, LastIt)) = 2 /\ nops = 2

\* C7: peek(count) leaves the logical stream of the Sequence as it was, and a
\* second peek(count) returns the same list
C7_PeekCountIdempotent ==
    last.op = "peek" =>
        /\ Contents(heap, seqs[last.self]) = Contents(last.h, LastIt)
        /\ peek(heap, seqs, last.self, last.arg).res = last.res

C7_Witness ==
    /\ last.op = "peek" /\ last.arg = 2 /\ Len(last.res) = 2
    /\ last.h[LastIt].kind = "chain"
    /\ Len(Contents(heap, seqs[last.self])) > 2

\* C8: peek() leaves the logical stream of the Sequence as it was, for every
\* sequence, the empty one included
C8_PeekNoneKeepsStream ==
    last.op = "peekNone" =>
        Contents(heap, seqs[last.self]) = Contents(last.h, LastIt)

\* C10: first() does not raise; it returns None on an empty sequence, and
\* otherwise the element at the cursor, advancing the cursor by exactly one
C10_FirstAdvancesOne ==
    last.op = "first" =>
        /\ last.exc = ""
        /\ Contents(last.h, LastIt) = <<>> =>
              (last.val = None /\ Contents(heap, seqs[last.self]) = <<>>)
        /\ Contents(last.h, LastIt) # <<>> =>
              /\ last.val = Head(Contents(last.h, LastIt))
              /\ Contents(heap, seqs[last.self]) = Tail(Contents(last.h, LastIt))

C10_Witness ==
    /\ last.op = "first" /\ last.val = 2
    /\ Len(Contents(heap, seqs[last.self])) >= 1

C10_WitnessEmpty ==
    last.op = "first" /\ last.val = None /\ nops = 1

\* the windows of xs: w_k = xs[k*stride + 1 .. k*stride + size], k = 0 .. (n - size) \div stride
WindowsOf(xs, size, stride) ==
    IF Len(xs) < size THEN <<>>
    ELSE [k \in 1..((Len(xs) - size) \div stride + 1) |->
            SubSeq(xs, (k - 1) * stride + 1, (k - 1) * stride + size)]

\* for size >= 1 and stride >= 1, collecting a fresh window(size, stride)
\* yields exactly the full windows at the multiples of stride, each of size
\* elements, and no shorter remainder; batch(size) is window(size, size)
C4_WindowsAtStride ==
    (last.op = "collect" /\ LastObj.kind = "window" /\ LastObj.st = "start"
        /\ LastObj.n >= 1 /\ LastObj.stride >= 1) =>
        /\ last.res = WindowsOf(Contents(last.h, LastObj.up), LastObj.n, LastObj.stride)
        /\ \A k \in 1..Len(last.res) : Len(last.res[k]) = LastObj.n

\* batch(size) returns window(size, stride=size)
C4_BatchIsWindow ==
    (last.op = "batch" /\ last.exc = "") =>
        /\ heap[Len(heap)].kind = "window"
        /\ heap[Len(heap)].n = last.arg /\ heap[Len(heap)].stride = last.arg

\* C4: window(size, stride) yields the full windows at the multiples of stride
\* and drops the remainder, and batch(size) is its case stride = size
C4_Windows == C4_WindowsAtStride /\ C4_BatchIsWindow

C4_Witness ==
    /\ last.op = "collect" /\ LastObj.kind = "window" /\ LastObj.st = "start"
    /\ LastObj.n = 3 /\ LastObj.stride = 2
    /\ last.res = << <<1, 2, 3>>, <<3, 4, 5>> >>
    /\ Len(Contents(last.h, LastObj.up)) = 6

\* C5: window and batch with a size or a stride that is not positive raise at
\* the call, and no window is ever emitted for such arguments
C5_RejectedAtCall ==
    /\ (last.op \in {"window", "batch"} /\ (last.arg <= 0 \/ last.arg2 <= 0)) =>
          (last.exc # "" /\ Len(seqs) = Len(last.seqs))
    /\ \A id \in 1..Len(heap) :
          (heap[id].kind = "window" /\ heap[id].out > 0) =>
              (heap[id].n >= 1 /\ heap[id].stride >= 1)

\* what the code does reject at the call: a stride that is not positive
C5_StrideRejectedAtCall ==
    (last.op \in {"window", "batch"} /\ last.arg2 <= 0) =>
        (last.exc = "AssertionError" /\ Len(seqs) = Len(last.seqs) /\ heap = last.h)

\* the left fold of xs from acc
RECURSIVE FoldLeft(_, _, _)
FoldLeft(fn, acc, xs) ==
    IF xs = <<>> THEN acc ELSE FoldLeft(fn, Fn(fn, acc, Head(xs)), Tail(xs))

\* what reduce returns when it returns: the left fold, seeded with the first
\* element when no initial value is given
ReduceFolds ==
    /\ (last.arg2 = None /\ Contents(last.h, LastIt) # <<>>) =>
          /\ last.exc = ""
          /\ last.val = FoldLeft(last.arg, Head(Contents(last.h, LastIt)),
                                 Tail(Contents(last.h, LastIt)))
    /\ last.arg2 # None =>
          /\ last.exc = ""
          /\ last.val = FoldLeft(last.arg, last.arg2, Contents(last.h, LastIt))

\* C9: reduce without an initial value on an empty sequence fails with the
\* dedicated EmptySequence error; otherwise it is the left fold, seeded with the
\* first element or with the initial value
C9_ReduceEmptySequence ==
    last.op = "reduce" =>
        /\ (last.arg2 = None /\ Contents(last.h, LastIt) = <<>>) =>
              last.exc = "EmptySequence"
        /\ ReduceFolds

\* what the code does on the empty sequence: next()'s StopIteration escapes
C9_ReduceStopIteration ==
    last.op = "reduce" =>
        /\ (last.arg2 = None /\ Contents(last.h, LastIt) = <<>>) =>
              last.exc = "StopIteration"
        /\ ReduceFolds

\* [f(x) for x in input]
MapF(xs) == [k \in 1..Len(xs) |-> F(xs[k])]

Occurrences(xs, v) == Cardinality({ k \in 1..Len(xs) : xs[k] = v })

SameMultiset(xs, ys) ==
    /\ Len(xs) = Len(ys)
    /\ \A k \in 1..Len(xs) : Occurrences(xs, xs[k]) = Occurrences(ys, xs[k])

\* the values delivered to the consumer so far
Got == [k \in 1..Len(pool.got) |-> pool.got[k].v]

\* C1: with ordered=True, for every number of workers and every interleaving,
\* what was delivered is at every moment a prefix of [f(x) for x in input], and
\* collect() returns exactly that list
C1_PmapOrdered ==
    (pool.made /\ pool.ordered) =>
        /\ Len(Got) <= Len(pool.src)
        /\ Got = SubSeq(MapF(pool.src), 1, Len(Got))
        /\ pool.done => (last.res = MapF(pool.src))

C1_Witness ==
    /\ pool.made /\ pool.ordered /\ pool.workers = 2 /\ pool.done
    /\ Len(last.res) = 3 /\ last.res[1] # last.res[2]

\* a result overtook an earlier one on the way, under ordered=True
C1_WitnessOvertaken ==
    /\ pool.made /\ pool.ordered /\ pool.unsorted # {}

\* where task i is: each place holds it at most once
Holders(i) ==
    Cardinality({ k \in 1..Len(pool.inq) : pool.inq[k].i = i })
    + Cardinality({ w \in 1..pool.workers : pool.wk[w] # <<>> /\ pool.wk[w][1].i = i })
    + Cardinality({ k \in 1..Len(pool.outq) : pool.outq[k].i = i })
    + Cardinality({ o \in pool.unsorted : o.i = i })
    + Cardinality({ k \in 1..Len(pool.items) : pool.items[k].i = i })
    + Cardinality({ k \in 1..Len(pool.got) : pool.got[k].i = i })

\* C2: with ordered=False, every upstream element is pulled once and is in
\* exactly one place (the task queue, one worker, the result queue, the
\* iterator, the consumer), and collect() returns the multiset of f(x)
C2_PmapUnordered ==
    (pool.made /\ ~pool.ordered) =>
        /\ heap[pool.up].out - pool.out0 = pool.ti
        /\ pool.ti <= Len(pool.src)
        /\ \A i \in 0..(pool.ti - 1) : Holders(i) = 1
        /\ \A k \in 1..Len(pool.got) :
              pool.got[k].v = F(pool.src[pool.got[k].i + 1])
        /\ pool.done => SameMultiset(last.res, MapF(pool.src))

C2_Witness ==
    /\ pool.made /\ ~pool.ordered /\ pool.done
    /\ Len(last.res) = 3 /\ last.res # MapF(pool.src)

\* C2: a result overtook an earlier one and was delivered first
C2_WitnessOvertaken ==
    /\ pool.made /\ ~pool.ordered /\ Len(pool.got) >= 2
    /\ pool.got[1].i > pool.got[2].i

\* the Sequence that operator call r returned yields nothing when drained
YieldsNothing(r) == r.exc = "" /\ Contents(r.h, r.seqs[Len(r.seqs)]) = <<>>

\* the last call drained its Sequence: collect() returned, or a pull by
\* iteration met the end
Drained ==
    \/ last.op = "collect" /\ last.exc = ""
    \/ last.op = "pull" /\ last.exc = "StopIteration"

\* the operators that do find a drained Sequence s empty
EmptyExceptPeekAndReduce(h, ss, s) ==
    /\ \A r \in {collect(h, ss, s)} : r.res = <<>> /\ r.exc = ""
    /\ \A r \in {count(h, ss, s)} : r.val = 0 /\ r.exc = ""
    /\ \A r \in {first(h, ss, s)} : r.val = None /\ r.exc = ""
    /\ \A r \in {reduce(h, ss, s, "sub", 0)} : r.val = 0 /\ r.exc = ""
    /\ \A n \in PipeArgs : \A r \in {peek(h, ss, s, n)} :
          r.res = <<>> /\ r.exc = "" /\ Contents(r.h, r.seqs[s]) = <<>>
    /\ \A n \in PipeArgs : YieldsNothing(take(h, ss, s, n)) /\ YieldsNothing(drop(h, ss, s, n))
    /\ \A fn \in MapFns : YieldsNothing(map(h, ss, s, fn))
    /\ \A fn \in FlatFns : YieldsNothing(flatmap(h, ss, s, fn))
    /\ \A fn \in Preds : YieldsNothing(keep_if(h, ss, s, fn, 0))
                         /\ YieldsNothing(drop_if(h, ss, s, fn))
    /\ \A key \in KeyFns : YieldsNothing(groupby(h, ss, s, key, ""))
    /\ \A n \in 1..MaxPipeArg : YieldsNothing(window(h, ss, s, n, 1))
                                /\ YieldsNothing(batch(h, ss, s, n))
    /\ YieldsNothing(zip_with_index(h, ss, s))
    /\ YieldsNothing(concat(h, ss, s, s))
    /\ YieldsNothing(distinct(h, ss, s))

\* C11: once a Sequence was drained, every operator applied to it produces an
\* empty result: none raises an error and none makes an element appear
C11_ExhaustedStaysEmpty ==
    Drained =>
        /\ EmptyExceptPeekAndReduce(heap, seqs, last.self)
        /\ \A r \in {reduce(heap, seqs, last.self, "sub", None)} : r.exc = ""
        /\ \A r \in {peekNone(heap, seqs, last.self)} :
              r.exc = "" /\ Contents(r.h, r.seqs[last.self]) = <<>>

\* what the code does keep of C11: every operator but peek() and reduce without
\* an initial value finds the drained Sequence empty
C11_ExhaustedExceptPeekAndReduce ==
    Drained => EmptyExceptPeekAndReduce(heap, seqs, last.self)

\* a drained Sequence on which peek() made an element appear
C11_PeekRevives ==
    /\ last.op = "collect" /\ Len(last.res) = 1
    /\ ~IsSelfConcat(last.h, LastIt) /\ Contents(last.h, 1) = <<>>
    /\ last.h[LastIt].kind = "chain"

\* the operators that return a Sequence, and those that return a value
SeqOps ==
    {"map", "flatmap", "keep_if", "drop_if", "drop", "take", "zip_with_index",
     "window", "batch", "groupby", "concat", "distinct", "pmap"}
ValueOps == {"collect", "pull", "first", "count", "reduce"}

\* every Sequence that existed before the last call wraps the cursor object it wrapped
SameCursors == \A s \in 1..Len(last.seqs) : seqs[s] = last.seqs[s]

\* iterator new was built on iterator old: a generator or enumerate over it,
\* a chain of it, a chain of the two iterators of its tee, or (distinct) the
\* keys of what was drained from it
Wraps(h, new, old) ==
    CASE h[new].kind = "chain" ->
            \E k \in 1..Len(h[new].items) :
                \/ h[new].items[k] = old
                \/ h[h[new].items[k]].kind = "tee" /\ h[h[h[new].items[k]].up].up = old
      [] h[new].kind = "list" -> last.op = "distinct"
      [] OTHER -> h[new].up = old

\* the last call returned a new Sequence on a new cursor object built on the
\* cursor of the Sequence it was called on, or raised and made none
ReturnsNewSequence ==
    IF last.exc # "" THEN seqs = last.seqs
    ELSE /\ Len(seqs) = Len(last.seqs) + 1
         /\ seqs[Len(seqs)] > Len(last.h)
         /\ Wraps(heap, seqs[Len(seqs)], LastIt)

\* C12 as stated: no operator call rebinds the cursor of a Sequence, and the
\* result is a new Sequence built on the original cursor, or a value
C12_NeverRebinds ==
    /\ last.op \in SeqOps => (SameCursors /\ ReturnsNewSequence)
    /\ last.op \in ValueOps \cup {"peek", "peekNone"} => seqs = last.seqs

\* C12 amended: no operator but peek rebinds a cursor; peek rebinds the cursor
\* of the Sequence it is called on, and of no other, to a new chain of the
\* peeked elements and the cursor it had
C12_OnlyPeekRebinds ==
    /\ last.op \in SeqOps => (SameCursors /\ ReturnsNewSequence)
    /\ last.op \in ValueOps => seqs = last.seqs
    /\ last.op \in {"peek", "peekNone"} =>
          /\ Len(seqs) = Len(last.seqs)
          /\ \A s \in 1..Len(seqs) : s # last.self => seqs[s] = last.seqs[s]
          /\ seqs[last.self] > Len(last.h)
          /\ heap[seqs[last.self]].kind = "chain"
          /\ heap[seqs[last.self]].items[2] = LastIt
          /\ heap[heap[seqs[last.self]].items[1]].kind = "list"

C12_Witness ==
    /\ last.op = "peek" /\ Len(last.res) = 2
    /\ seqs[last.self] # LastIt /\ last.h[LastIt].out = 1

C12_WitnessMap ==
    /\ last.op = "map" /\ seqs[last.self] = LastIt
    /\ heap[seqs[Len(seqs)]].up = LastIt /\ last.h[LastIt].out = 1

\* the lazy operators
LazyOps ==
    {"map", "flatmap", "keep_if", "drop_if", "drop", "take", "zip_with_index",
     "window", "batch", "groupby", "concat", "pmap"}

\* every iterator object that existed before the last call is as it was: no
\* position moved, nothing buffered, no element produced
NothingPulled == SubSeq(heap, 1, Len(last.h)) = last.h

\* the objects the last call made were not started and produced nothing
MadeUnstarted ==
    \A id \in (Len(last.h) + 1)..Len(heap) :
        heap[id].st = "start" /\ heap[id].out = 0 /\ heap[id].pos = 0

\* C13: a call of a lazy operator pulls no element from the upstream cursor,
\* whatever the state of the upstream; under pmap nothing is pulled from the
\* call until the returned Sequence is first pulled
C13_LazyAtCall ==
    /\ (last.op \in LazyOps \ {"pmap"}) => (NothingPulled /\ MadeUnstarted)
    /\ (pool.made /\ pool.job = "none") =>
          /\ NothingPulled /\ MadeUnstarted
          /\ pool.ti = 0 /\ pool.inq = <<>> /\ heap[pool.up].out = pool.out0

C13_Witness ==
    /\ last.op = "drop" /\ last.arg = 2 /\ last.exc = ""
    /\ last.h[LastIt].out = 1 /\ Len(Contents(heap, LastIt)) = 2

C13_WitnessPmap ==
    /\ pool.made /\ pool.job = "none" /\ heap[pool.up].out = 1
    /\ Len(Contents(heap, pool.up)) = 2

\* the elements iterator id produced during the last call
PulledFrom(id) == heap[id].out - last.h[id].out

\* C14: a source (a list iterator) hands out each of its elements at most once
\* and in order, whatever pipeline is drained over it; draining s.concat(s)
\* delivers each element left in s twice and pulls it from s once
C14_PulledOnceInOrder ==
    /\ \A id \in 1..Len(heap) :
          heap[id].kind = "list" =>
              /\ heap[id].out = heap[id].pos
              /\ heap[id].out <= Len(heap[id].items)
    /\ (last.op = "collect" /\ last.exc = "") =>
          \A id \in 1..Len(last.h) :
              last.h[id].kind = "list" =>
                  PulledFrom(id) <= Len(last.h[id].items) - last.h[id].pos
    /\ (last.op = "collect" /\ last.exc = "" /\ IsSelfConcat(last.h, LastIt)) =>
          /\ last.res = Contents(last.h, SelfConcatSource(last.h, LastIt))
                        \o Contents(last.h, SelfConcatSource(last.h, LastIt))
          /\ PulledFrom(SelfConcatSource(last.h, LastIt))
                = Len(Contents(last.h, SelfConcatSource(last.h, LastIt)))

C14_Witness ==
    /\ last.op = "collect" /\ IsSelfConcat(last.h, LastIt)
    /\ Len(last.res) = 6 /\ PulledFrom(1) = 3 /\ heap[1].out = 3

\* C15: Sequence(None) is empty; Sequence(it) on an iterator wraps that very
\* object: no iterator is made, reset or advanced, the new Sequence starts where
\* the iterator stands, and what is pulled through it is consumed from it
C15_WrapsSameIterator ==
    /\ last.op = "SequenceNone" =>
          /\ NothingPulled
          /\ \A r \in {collect(heap, seqs, Len(seqs))} : r.res = <<>> /\ r.exc = ""
    /\ last.op = "Sequence" =>
          /\ heap = last.h
          /\ Len(seqs) = Len(last.seqs) + 1
          /\ seqs[Len(seqs)] = last.arg
          /\ Contents(heap, seqs[Len(seqs)]) = Contents(last.h, last.arg)
          /\ \A r \in {pull(heap, seqs, Len(seqs))} :
                r.res # <<>> =>
                    /\ r.res[1] = Head(Contents(last.h, last.arg))
                    /\ Contents(r.h, last.arg) = Tail(Contents(last.h, last.arg))
                    /\ Contents(r.h, r.seqs[last.self]) = Tail(Contents(last.h, last.arg))

C15_Witness ==
    /\ last.op = "Sequence" /\ heap[last.arg].out = 1
    /\ Len(Contents(heap, seqs[Len(seqs)])) = 2

C15_WitnessNone ==
    /\ last.op = "SequenceNone" /\ Len(seqs) = 2 /\ Len(Contents(heap, 1)) = 2

\* the keys of xs
KeysOf(xs, key) == [i \in 1..Len(xs) |-> Key(key, xs[i])]

\* where a run of equal keys starts: at the first element, and at every
\* element whose key differs from the key before it
Starts(ks) == { i \in 1..Len(ks) : i = 1 \/ ks[i] # ks[i - 1] }

\* the j-th start, and the end of the run that starts there
NthStart(ks, j) == CHOOSE i \in Starts(ks) : Cardinality({ m \in Starts(ks) : m <= i }) = j
RunEnd(ks, j) == IF j = Cardinality(Starts(ks)) THEN Len(ks) ELSE NthStart(ks, j + 1) - 1

\* the maximal runs of consecutive elements with equal key, in input order,
\* each as <<key, [getter(x) for x in the run]>>
RunsOf(xs, key, getter) ==
    [j \in 1..Cardinality(Starts(KeysOf(xs, key))) |->
        << KeysOf(xs, key)[NthStart(KeysOf(xs, key), j)],
           [m \in 1..(RunEnd(KeysOf(xs, key), j) - NthStart(KeysOf(xs, key), j) + 1) |->
               Getter(getter, xs[NthStart(KeysOf(xs, key), j) + m - 1])] >>]

IsSorted(ks) == \A i \in 1..(Len(ks) - 1) : ks[i] <= ks[i + 1]

\* the last call collected a groupby that had not been pulled
CollectedGroupby == last.op = "collect" /\ LastObj.kind = "groupby" /\ LastObj.st = "start"

\* C16: collecting groupby(key, getter) yields the maximal runs of consecutive
\* elements with equal key, in input order: adjacent groups differ in key, no
\* group is empty, a key that comes back makes a new group, and key-sorted
\* input gives one group per distinct key
C16_GroupbyRuns ==
    CollectedGroupby =>
        /\ last.exc = ""
        /\ last.res = RunsOf(Contents(last.h, LastObj.up), LastObj.fn, LastObj.getter)
        /\ \A j \in 1..Len(last.res) : Len(last.res[j][2]) >= 1
        /\ \A j \in 1..(Len(last.res) - 1) : last.res[j][1] # last.res[j + 1][1]
        /\ IsSorted(KeysOf(Contents(last.h, LastObj.up), LastObj.fn)) =>
              /\ \A i, j \in 1..Len(last.res) : i # j => last.res[i][1] # last.res[j][1]
              /\ Len(last.res)
                    = Cardinality({ Key(LastObj.fn, Contents(last.h, LastObj.up)[i]) :
                                      i \in 1..Len(Contents(last.h, LastObj.up)) })

\* a key that comes back after another one: three groups, the first and the
\* third with the same key
C16_Witness ==
    /\ CollectedGroupby /\ LastObj.fn = "parity" /\ LastObj.getter = "double"
    /\ Len(last.res) = 3 /\ last.res[1][1] = last.res[3][1]
    /\ last.res[1][2] = <<6>>

C16_WitnessSorted ==
    /\ CollectedGroupby /\ LastObj.fn = "ident"
    /\ last.res = << <<1, <<1, 1>> >>, <<2, <<2>> >> >>

\* the index of the first element of xs on which fn raises, 0 when there is none
FirstRaise(fn, xs) ==
    IF \A i \in 1..Len(xs) : Apply(fn, xs[i]).ok THEN 0
    ELSE CHOOSE i \in 1..Len(xs) :
            ~Apply(fn, xs[i]).ok /\ \A j \in 1..(i - 1) : Apply(fn, xs[j]).ok

\* [fn(x) for x in xs[:n]]
Applied(fn, xs, n) == [i \in 1..n |-> Apply(fn, xs[i]).v]

\* the stream at iterator id ends without an exception of its own
EndsClean(h, id) == Drain(h, id, <<>>).exc = ""

\* the last call collected, or pulled once, a map that was not finished, over
\* an upstream that does not raise itself
CollectedMap ==
    /\ last.op = "collect" /\ LastObj.kind = "map" /\ LastObj.st = "start"
    /\ EndsClean(last.h, LastObj.up)
PulledMap ==
    /\ last.op = "pull" /\ LastObj.kind = "map" /\ LastObj.st # "done"
    /\ EndsClean(last.h, LastObj.up)

\* draining map(fn) over the stream xs, where fn raises first on xs[k]
\* (k = 0: nowhere): the results of the elements before xs[k] were delivered
\* in order, then what fn raised reached the caller as it was, k elements were
\* pulled from the upstream, and the map is finished
MapDrained(fn, xs, k) ==
    IF k = 0
    THEN /\ last.exc = ""
         /\ last.res = Applied(fn, xs, Len(xs))
         /\ PulledFrom(LastObj.up) = Len(xs)
    ELSE /\ last.exc = Apply(fn, xs[k]).exc
         /\ last.res = Applied(fn, xs, k - 1)
         /\ PulledFrom(LastObj.up) = k
         /\ Contents(heap, LastObj.up) = SubSeq(xs, k + 1, Len(xs))
         /\ heap[LastIt].st = "done"
         /\ \A r \in {pull(heap, seqs, last.self)} : r.exc = "StopIteration"

\* C17: map(fn) does not call fn when it is called; drained, it yields fn(x)
\* for each x in input order; when fn raises on an element, that exception
\* reaches the caller at the pull of that element, after the results of the
\* elements before it, and the map yields nothing more
C17_MapPropagates ==
    /\ last.op = "map" => (last.exc = "" /\ NothingPulled)
    /\ CollectedMap =>
          MapDrained(LastObj.fn, Contents(last.h, LastObj.up),
                     FirstRaise(LastObj.fn, Contents(last.h, LastObj.up)))
    /\ (PulledMap /\ Contents(last.h, LastObj.up) # <<>>) =>
          \A a \in {Apply(LastObj.fn, Head(Contents(last.h, LastObj.up)))} :
              /\ PulledFrom(LastObj.up) = 1
              /\ a.ok => (last.exc = "" /\ last.res = <<a.v>>)
              /\ ~a.ok => (last.exc = a.exc /\ last.res = <<>> /\ heap[LastIt].st = "done")

\* fn raised on the second element: one result was delivered before it
C17_Witness ==
    /\ CollectedMap /\ LastObj.fn = "inv" /\ last.exc = "ZeroDivisionError"
    /\ last.res = <<-6>> /\ Contents(heap, LastObj.up) = <<3>>

C17_WitnessWhole ==
    /\ CollectedMap /\ LastObj.fn = "double" /\ last.res = <<2, 4, 6>>

\* the last call collected a keep_if or drop_if that had not been pulled, over
\* an upstream that does not raise
CollectedFilter ==
    /\ last.op = "collect" /\ LastObj.kind = "filter" /\ LastObj.st = "start"
    /\ EndsClean(last.h, LastObj.up)

\* fn(x) is the bool True; fn(x) is falsy
ReturnsTrue(fn, x) == Pred(fn, x) = PyBool(TRUE)
ReturnsFalsy(fn, x) == Pred(fn, x).v = 0

\* C18: keep_if(fn) yields, in input order, the elements on which fn returns
\* the bool True, and none on which it returns another truthy value; drop_if(fn)
\* yields those that keep_if yields for the negation of fn, the elements on
\* which fn returns a falsy value
C18_KeepIfTrue ==
    /\ (CollectedFilter /\ LastObj.n = 0) =>
          /\ last.exc = ""
          /\ last.res = SelectSeq(Contents(last.h, LastObj.up),
                                  LAMBDA x : ReturnsTrue(LastObj.fn, x))
    /\ (CollectedFilter /\ LastObj.n = 1) =>
          /\ last.exc = ""
          /\ last.res = SelectSeq(Contents(last.h, LastObj.up),
                                  LAMBDA x : ReturnsFalsy(LastObj.fn, x))
    /\ last.op = "keep_if" => heap[seqs[Len(seqs)]].n = 0
    /\ last.op = "drop_if" => heap[seqs[Len(seqs)]].n = 1

\* fn returned 1 on two of three elements, and keep_if kept none
C18_Witness ==
    /\ CollectedFilter /\ LastObj.n = 0 /\ LastObj.fn = "mod2"
    /\ Contents(last.h, LastObj.up) = <<1, 2, 3>> /\ last.res = <<>>

C18_WitnessDropIf ==
    /\ CollectedFilter /\ LastObj.n = 1 /\ LastObj.fn = "mod2"
    /\ Contents(last.h, LastObj.up) = <<1, 2, 3>> /\ last.res = <<2>>

C18_WitnessKeepIf ==
    /\ CollectedFilter /\ LastObj.n = 0 /\ LastObj.fn = "gt1"
    /\ Contents(last.h, LastObj.up) = <<1, 2, 3>> /\ last.res = <<2, 3>>

\* C19: count() returns the number of elements that were left in the
\* sequence, 0 when none was left, and leaves the sequence drained
C19_CountDrains ==
    last.op = "count" =>
        /\ last.exc = ""
        /\ last.val = Len(Contents(last.h, LastIt))
        /\ PulledFrom(LastIt) = Len(Contents(last.h, LastIt))
        /\ Contents(heap, seqs[last.self]) = <<>>

\* two elements were left of three
C19_Witness ==
    /\ last.op = "count" /\ last.val = 2
    /\ last.h[LastIt].out = 1 /\ Len(last.h[LastIt].items) = 3

C19_WitnessEmpty ==
    /\ last.op = "count" /\ last.val = 0 /\ last.h[LastIt].items = <<>>

\* the index of the first occurrence of v in xs
FirstIndex(xs, v) == CHOOSE i \in 1..Len(xs) : xs[i] = v /\ \A j \in 1..(i - 1) : xs[j] # v

\* ys holds each element of xs once, in the order of its first occurrence in xs
DistinctOf(xs, ys) ==
    /\ \A i \in 1..Len(xs) : Occurrences(ys, xs[i]) = 1
    /\ \A k \in 1..Len(ys) : Occurrences(xs, ys[k]) >= 1
    /\ \A i, j \in 1..Len(ys) : i < j => FirstIndex(xs, ys[i]) < FirstIndex(xs, ys[j])

\* C20: distinct() drains the sequence and returns a new Sequence of its
\* distinct elements, each once, in the order of their first appearance
C20_DistinctFirstAppearance ==
    last.op = "distinct" =>
        /\ last.exc = ""
        /\ Len(seqs) = Len(last.seqs) + 1
        /\ seqs[Len(seqs)] > Len(last.h)
        /\ DistinctOf(Contents(last.h, LastIt), Contents(heap, seqs[Len(seqs)]))
        /\ PulledFrom(LastIt) = Len(Contents(last.h, LastIt))
        /\ Contents(heap, seqs[last.self]) = <<>>

\* an element came back after another one
C20_Witness ==
    /\ last.op = "distinct" /\ Contents(last.h, LastIt) = <<2, 1, 2>>
    /\ Contents(heap, seqs[Len(seqs)]) = <<2, 1>>

\* C21: once the consumer of a pmap Sequence has stopped pulling, no element
\* is pulled from the upstream cursor any more: no step taken after that moment
\* moves the upstream
C21_NoPullsAfterHalt ==
    [][pool.halted => (heap'[pool.up].out = heap[pool.up].out)]_vars

\* what the code does: the task handler thread pulls the whole upstream, one
\* element delivered and all three pulled
C21_PulledToTheEnd ==
    /\ pool.halted /\ Len(pool.got) = 1
    /\ Len(pool.src) = 3 /\ pool.job = "done" /\ heap[pool.up].out - pool.out0 = 3

\* how many times the result of the i-th upstream element was delivered
Delivered(i) == Cardinality({ k \in 1..Len(pool.got) : pool.got[k].i = i - 1 })

\* C22: when the generator of pmap has finished, in either mode, the error of
\* an element on which fn raises was raised to the consumer, and the result of
\* every other element was delivered exactly once, with the value fn gives
C22_ErrorKeepsOthers ==
    (pool.made /\ pool.done) =>
        \A i \in 1..Len(pool.src) :
            \E a \in {Apply(pool.fn, pool.src[i])} :
                /\ ~a.ok => (pool.exc = a.exc /\ Delivered(i) = 0)
                /\ a.ok => /\ Delivered(i) = 1
                           /\ \A k \in 1..Len(pool.got) :
                                 (pool.got[k].i = i - 1) => (pool.got[k].v = a.v)

\* what the code does: the error finishes the generator, and the result of the
\* element behind the failing one is never delivered
C22_ResultDropped ==
    /\ pool.made /\ pool.done /\ pool.exc = "ZeroDivisionError"
    /\ Len(pool.src) = 3 /\ Delivered(1) = 1 /\ Delivered(3) = 0

\* the error is raised for the failing element, and nothing is delivered twice
C22_ErrorSurfacedNoDuplicates ==
    pool.made =>
        /\ \A i \in 1..Len(pool.src) : Delivered(i) <= 1
        /\ (pool.exc # "") =>
              \E i \in 1..Len(pool.src) : Apply(pool.fn, pool.src[i]).exc = pool.exc

\* C25: the worker threads of pmap's pool are alive only between the first
\* pull and the end of the returned Sequence: none is alive after the call
\* while the result was never pulled, and none is alive once the returned
\* Sequence has been drained
C25_PoolScopedToSequence ==
    /\ (pool.made /\ pool.job = "none") => ~pool.alive
    /\ (pool.made /\ pool.done) => ~pool.alive

\* what the code does: the threads run from the call on, nothing pulled
C25_AliveBeforeFirstPull ==
    /\ pool.made /\ pool.job = "none" /\ pool.alive /\ pool.workers = 2
    /\ heap[pool.gen].st = "start"

\* what the code does: the threads are still there after the last element
C25_AliveAfterDrained ==
    /\ pool.made /\ pool.done /\ pool.exc = "" /\ pool.alive
    /\ Len(pool.got) = 3

\* [func(v) for v in xs]
FieldsOf(fn, xs) == [i \in 1..Len(xs) |-> FieldFn(fn, xs[i])]

\* the call was F = apply(func); F(data) with one function
SingleFunction == last.op = "apply" /\ Len(last.arg) = 1 /\ last.arg[1].t = "function"

\* apply(func) on a list: the list of func(v), in order
C23_ApplyList ==
    (SingleFunction /\ last.arg2.t = "list") =>
        /\ last.exc = ""
        /\ last.val = PyList(FieldsOf(last.arg[1].fn, last.arg2.items))

\* apply(func) on a dict: the dict of the same keys, in order, with func(v)
C23_ApplyDict ==
    (SingleFunction /\ last.arg2.t = "dict") =>
        /\ last.exc = ""
        /\ last.val.t = "dict"
        /\ Len(last.val.items) = Len(last.arg2.items)
        /\ \A i \in 1..Len(last.arg2.items) :
              /\ KeyEq(last.val.items[i][1], last.arg2.items[i][1])
              /\ last.val.items[i][2] = FieldFn(last.arg[1].fn, last.arg2.items[i][2])

\* C23: the function built by apply(func) with one function returns, for a
\* list, the list of func(v) in order and, for a dict, the dict with the same
\* keys and func(v) as each value
C23_ApplyAllFields == C23_ApplyList /\ C23_ApplyDict

\* what the code does on a dict that is not empty
C23_DictRaises ==
    /\ SingleFunction /\ last.arg2.t = "dict" /\ Len(last.arg2.items) = 2
    /\ last.exc = "TypeError"

\* the eager groups of the input of the lazy groupby
EagerGroups == RunsOf(Contents(last.h, LastIt), last.arg, last.arg2)

IsPrefix(xs, ys) == Len(xs) <= Len(ys) /\ xs = SubSeq(ys, 1, Len(xs))

\* C24: under groupby(eager_group=False) the j-th group has the key of the
\* j-th eager group; a group drained to its end before the outer cursor is
\* pulled again has delivered exactly the elements of the eager group; a
\* group that was not drained when the outer cursor moved on delivers nothing
\* afterwards, and what it did not deliver is delivered to no other group:
\* every group delivers only a prefix of its own eager group
C24_LazyGroups ==
    (last.op = "groupby_lazy") =>
        \E eager \in {EagerGroups} :
            /\ Len(last.res) <= Len(eager)
            /\ (heap[seqs[Newest]].st = "done") => (Len(last.res) = Len(eager))
            /\ \A j \in 1..Len(last.res) :
                  /\ last.res[j][1] = eager[j][1]
                  /\ IsPrefix(last.res[j][2], eager[j][2])
                  /\ last.res[j][4] => (last.res[j][2] = eager[j][2])
                  /\ last.res[j][5] = 0
                  /\ (~IsCurrent(heap, last.res[j][3]) /\ ~last.res[j][4]) =>
                        ~ItNext(heap, last.res[j][3]).ok

\* the first group was left after one of its two elements and pulled again
\* after the outer cursor had moved on to the second group, which was drained
C24_Witness ==
    /\ last.op = "groupby_lazy" /\ Len(last.res) = 2
    /\ Len(last.res[1][2]) = 1 /\ Len(EagerGroups[1][2]) = 2
    /\ heap[last.res[1][3]].st = "done" /\ ~last.res[1][4]
    /\ last.res[2][4] /\ Len(last.res[2][2]) = 1

\* every group drained in time: the groups are the eager groups
C24_WitnessDrained ==
    /\ last.op = "groupby_lazy" /\ Len(last.res) = 2
    /\ heap[seqs[Newest]].st = "done"
    /\ \A j \in 1..2 : last.res[j][4]
    /\ Len(last.res[1][2]) = 2

\* the last call was one next() on a window whose deque could be made
WindowPulledOnce == last.op = "pull" /\ LastObj.kind = "window" /\ LastObj.n >= 0

\* what that next() pulled from the upstream of the window, in pull order
WindowPulls ==
    FirstN(Contents(last.h, LastObj.up), heap[LastObj.up].out - last.h[LastObj.up].out)

\* the last n elements of xs, all of xs when it has fewer
LastN(xs, n) == SubSeq(xs, Len(xs) - (IF n < Len(xs) THEN n ELSE Len(xs)) + 1, Len(xs))

\* the buffer never holds more than size elements and holds the most recent
\* ones in pull order: after a next() it is the last size elements of what it
\* held before followed by what the next() pulled
WindowBufferBounded ==
    WindowPulledOnce =>
        /\ Len(heap[LastIt].items) <= LastObj.n
        /\ heap[LastIt].items = LastN(LastObj.items \o WindowPulls, LastObj.n)
        /\ (LastObj.st = "start") => (LastObj.items = <<>>)

\* a next() that emits a window emits the buffer; the first one has pulled
\* exactly size elements, a later one exactly stride elements
WindowEmitsOnTime ==
    (WindowPulledOnce /\ last.res # <<>>) =>
        /\ last.res = << heap[LastIt].items >>
        /\ Len(WindowPulls) = IF LastObj.st = "start" THEN LastObj.n ELSE LastObj.stride

\* C26: while a window(size, stride) is drained, its buffer holds at most size
\* elements, the most recent ones in pull order; the first window is emitted
\* after exactly size upstream pulls and each later one after exactly stride
\* further pulls
C26_WindowBuffer == WindowBufferBounded /\ WindowEmitsOnTime

\* C26 holds of the code for every size >= 1
C26_WindowBufferPositive == (WindowPulledOnce /\ LastObj.n >= 1) => C26_WindowBuffer

\* what the code does for size = 0: the first, empty window after one pull
C26_EmptyWindowAfterOnePull ==
    /\ WindowPulledOnce /\ LastObj.n = 0 /\ LastObj.st = "start"
    /\ last.res = << <<>> >> /\ Len(WindowPulls) = 1

\* size 2, stride 3: a later window after three pulls, the oldest evicted
C26_Slides ==
    /\ WindowPulledOnce /\ LastObj.n = 2 /\ LastObj.stride = 3 /\ LastObj.st = "yielded"
    /\ last.res = << <<4, 5>> >> /\ LastObj.items = <<1, 2>>

\* the last call was keep_if(fn) or drop_if(fn) on a stream that ends cleanly
FilterCalled == last.op \in {"keep_if", "drop_if"} /\ EndsClean(last.h, LastIt)

\* what keep_if(fn) and drop_if(fn) yield, each on the stream as it was before
\* the call
KeptBy(fn) ==
    Bind(keep_if(last.h, last.seqs, last.self, fn, 0), LAMBDA r : Contents(r.h, Len(r.h)))
DroppedBy(fn) ==
    Bind(drop_if(last.h, last.seqs, last.self, fn), LAMBDA r : Contents(r.h, Len(r.h)))

\* x is yielded, every time it occurs in xs, by exactly one of the two
ByExactlyOne(xs, kept, dropped, x) ==
    /\ Occurrences(kept, x) + Occurrences(dropped, x) = Occurrences(xs, x)
    /\ Occurrences(kept, x) = 0 \/ Occurrences(dropped, x) = 0

\* C27: for every predicate, keep_if(fn) and drop_if(fn) partition the input:
\* every input element is yielded by exactly one of the two
C27_Partition ==
    FilterCalled =>
        \E xs \in {Contents(last.h, LastIt)} :
            \E kept \in {KeptBy(last.arg)}, dropped \in {DroppedBy(last.arg)} :
                \A k \in 1..Len(xs) : ByExactlyOne(xs, kept, dropped, xs[k])

\* C27, amended: an element on which fn returns a bool, or a falsy value, is
\* yielded by exactly one of the two (by keep_if when it is True, by drop_if
\* else); an element on which fn returns a truthy value that is not True is
\* yielded by neither; both keep the input order
C27_PartitionOnBooleans ==
    FilterCalled =>
        \E xs \in {Contents(last.h, LastIt)} :
            \E kept \in {KeptBy(last.arg)}, dropped \in {DroppedBy(last.arg)} :
                /\ \A k \in 1..Len(xs) :
                      \E r \in {Pred(last.arg, xs[k])} :
                          IF r.t = "bool" \/ r.v = 0
                          THEN /\ ByExactlyOne(xs, kept, dropped, xs[k])
                               /\ (Occurrences(kept, xs[k]) > 0) <=> IsTrue(r)
                          ELSE /\ Occurrences(kept, xs[k]) = 0
                               /\ Occurrences(dropped, xs[k]) = 0
                /\ kept = SelectSeq(xs, LAMBDA x : Occurrences(kept, x) > 0)
                /\ dropped = SelectSeq(xs, LAMBDA x : Occurrences(dropped, x) > 0)

\* fn returns 1 on the elements 1 and 3 and 0 on 2: neither yields 1 and 3
C27_Witness ==
    /\ FilterCalled /\ last.op = "drop_if" /\ last.arg = "mod2"
    /\ Contents(last.h, LastIt) = <<1, 2, 3>>
    /\ KeptBy("mod2") = <<>> /\ DroppedBy("mod2") = <<2>>

\* fn returns booleans: a partition
C27_WitnessBooleans ==
    /\ FilterCalled /\ last.op = "keep_if" /\ last.arg = "gt1"
    /\ Contents(last.h, LastIt) = <<1, 2, 3>>
    /\ KeptBy("gt1") = <<2, 3>> /\ DroppedBy("gt1") = <<1>>

\* C28: after s.take(n), for every n >= 0, what s.take(n).collect() returns
\* followed by what s.collect() then returns is what s held, in order; draining
\* the take pulls from the cursor of s exactly the elements it yields
C28_TakeThenRest ==
    (last.op = "take" /\ last.exc = "") =>
        \E xs \in {Contents(last.h, LastIt)} :
            \E taken \in {Drain(heap, seqs[Len(seqs)], <<>>)} :
                /\ taken.exc = ""
                /\ taken.out \o Contents(taken.h, seqs[last.self]) = xs
                /\ taken.h[LastIt].out - heap[LastIt].out = Len(taken.out)

\* take(0) on three elements: it yields the first, and s the other two
C28_Witness ==
    /\ last.op = "take" /\ last.arg = 0
    /\ Contents(last.h, LastIt) = <<1, 2, 3>>
    /\ Contents(heap, seqs[Len(seqs)]) = <<1>>
    /\ Contents(Drain(heap, seqs[Len(seqs)], <<>>).h, seqs[last.self]) = <<2, 3>>

\* take(2) on three elements
C28_WitnessTwo ==
    /\ last.op = "take" /\ last.arg = 2
    /\ Contents(last.h, LastIt) = <<1, 2, 3>>
    /\ Contents(heap, seqs[Len(seqs)]) = <<1, 2>>
    /\ Contents(Drain(heap, seqs[Len(seqs)], <<>>).h, seqs[last.self]) = <<3>>

\* C29: peek(count), for every count >= 0, returns the next min(count, r)
\* elements of the sequence in order, r being the number of elements that
\* remain; peek(0) returns the empty list
C29_PeekReturnsNext ==
    (last.op = "peek" /\ last.exc = "") =>
        last.res = FirstN(Contents(last.h, LastIt), last.arg)

\* C29 holds of the code for count >= 1
C29_PeekReturnsNext_Positive ==
    (last.op = "peek" /\ last.exc = "" /\ last.arg >= 1) =>
        last.res = FirstN(Contents(last.h, LastIt), last.arg)

\* what the code does: peek(0) on a non-empty sequence returns its next element
C29_PeekZeroReturnsOne ==
    (last.op = "peek" /\ last.arg = 0 /\ Contents(last.h, LastIt) # <<>>) =>
        last.res = <<Contents(last.h, LastIt)[1]>>

\* the two results are the same value, or both are failures
SameOutcome(a, b) ==
    \/ a.exc = "" /\ b.exc = "" /\ a.val = b.val
    \/ a.exc # "" /\ b.exc # ""

\* C30: on every finite input, the empty one and reduce without an initial
\* value included, count() and reduce(f, initial) of the Sequence class of
\* datapad/__init__.py return what those of the class of datapad/sequence.py
\* return on the same input, or both fail
C30_ClassesEquivalent ==
    /\ last.op = "reducePackage" =>
          \E r \in {reduce(last.h, last.seqs, last.self, last.arg, last.arg2)} :
              SameOutcome(last, r)
    /\ last.op = "countPackage" =>
          \E r \in {count(last.h, last.seqs, last.self)} : SameOutcome(last, r)

\* where the classes agree: reduce with an initial value, reduce without one
\* on the empty sequence (both fail), count on a non-empty sequence
C30_EquivalentElsewhere ==
    /\ (last.op = "reducePackage"
          /\ (last.arg2 # None \/ Contents(last.h, LastIt) = <<>>)) =>
          \E r \in {reduce(last.h, last.seqs, last.self, last.arg, last.arg2)} :
              SameOutcome(last, r)
    /\ (last.op = "countPackage" /\ Contents(last.h, LastIt) # <<>>) =>
          \E r \in {count(last.h, last.seqs, last.self)} : SameOutcome(last, r)

\* what the code does where they differ: the class of datapad/__init__.py fails
\* and the class of datapad/sequence.py returns a value
C30_PackageClassFails ==
    /\ (last.op = "reducePackage" /\ last.arg2 = None
          /\ Contents(last.h, LastIt) # <<>>) =>
          /\ last.exc = "NameError"
          /\ reduce(last.h, last.seqs, last.self, last.arg, last.arg2).exc = ""
    /\ (last.op = "countPackage" /\ Contents(last.h, LastIt) = <<>>) =>
          /\ last.exc = "UnboundLocalError"
          /\ count(last.h, last.seqs, last.self).val = 0
          /\ count(last.h, last.seqs, last.self).exc = ""

====
